---------------------------- MODULE Spec2Model ----------------------------
(***************************************************************************)
(* sharestream-local: the sender of the peer-to-peer chunked transfer      *)
(* (src/src/components/FileTransferZone.tsx), the channel it writes to,    *)
(* the receiving session that consumes the envelope stream, and the chunk  *)
(* codec (split by Blob.slice, reassembly by concatenation).               *)
(*                                                                         *)
(* One step of the model is one JavaScript task: a handler or the          *)
(* continuation of an await runs to completion, so the state between two   *)
(* steps is a state the component can be observed in.                      *)
(*                                                                         *)
(* Bytes of the selected files are symbolic: a byte is identified by the   *)
(* file it comes from and its position, and a byte sequence is kept as a   *)
(* sequence of extents [src, from, to) with adjacent extents merged, so    *)
(* files of 50000 bytes are sliced at the real chunk size.  The codec      *)
(* specification (SpecCodec) slices concrete byte sequences instead.       *)
(*                                                                         *)
(* SpecStore is the content store (src/src/lib/localServer.ts): the        *)
(* in-memory map, its two durable mirrors (the IndexedDB object store and  *)
(* the localStorage metadata index) and the asynchronous operations on     *)
(* them.  Requests to IndexedDB are served in the order they were issued.  *)
(***************************************************************************)
EXTENDS Integers, Sequences, FiniteSets, TLC

\* ------------------------------------------------------------------ bounds
\* files the selection holds at most
MaxFiles == 2
\* invocations of sendFiles that pass the guard, in one behaviour
MaxRuns == 1
\* inbound peer connections in one behaviour
MaxConns == 1
\* SpecSessions: inbound connections, and as many invocations of sendFiles
MaxSessions == 2
\* SpecCodec: the longest byte sequence split, and the largest chunk size
MaxLen == 8
MaxChunkSize == 5
\* SpecStore: ids storeFile draws in one behaviour, store operations in
\* flight at once, and failures of the durable tier in one behaviour
MaxIds == 3
MaxOps == 2
MaxFailures == 1
MaxEnvelopes == 3
MaxRxFiles == 2
MaxRxIndex == 2

\* ------------------------------------------------------- program constants
\* FileTransferZone.tsx:182  const chunkSize = 16384
chunkSize == 16384

VARIABLES
    propGiven,          \* whether the parent passed onConnectionEstablished
    peerState,          \* "init" | "ready" | "failed": setupPeer's progress
    handlerInstalled,   \* peer.on('connection', ...) has been registered
    files,              \* useState<File[]>: the current selection
    connection,         \* useState<any>: 0 is null, else the connection's id
    connState,          \* per connection: "none" | "connecting" | "open" | "closed"
    transferStatus,     \* "idle" | "connecting" | "transferring" | "completed"
    transferProgress,   \* fileIndex -> percent, defined on the keys set so far
    toast,              \* the description of the toast shown last
    runs,               \* the invocations of sendFiles that passed the guard
    codec,              \* SpecCodec: one split of a byte sequence and its reassembly
    fileStorage,        \* Map<string, FileData>: the records in insertion order
    idb,                \* the IndexedDB object store 'files': a set of records
    localStorage,       \* the parsed value of 'localshare_files': a list of entries
    dbQueue,            \* requests issued to IndexedDB and not yet served
    initPending,        \* initializeFromStorage awaits listFilesFromDB
    ops,                \* storeFile / deleteFile calls in flight
    nextId,             \* the next id nanoid() returns
    ret,                \* what the last call returned or resolved with
    hist,               \* history: what was put, deleted and failed so far
    receiver,           \* SpecRx: a ReceiveSession and the envelopes it was given
    view                \* ReceiverMode: the lists shown and the toast shown last

storeVars == <<fileStorage, idb, localStorage, dbQueue, initPending, ops,
               nextId, ret, hist>>

vars == <<propGiven, peerState, handlerInstalled, files, connection, connState,
          transferStatus, transferProgress, toast, runs, codec, storeVars,
          receiver, view>>

Min(a, b) == IF a < b THEN a ELSE b
Max(a, b) == IF a > b THEN a ELSE b

\* --------------------------------------------------------------- the files
\* The File objects the user can select: a 0-byte file, a file of exactly two
\* chunks, and the 1-byte file and the 50000-byte file of the spec's scenario.
SelectableFiles ==
    { [name |-> "empty.bin", size |-> 0,     type |-> "", lastModified |-> 1],
      [name |-> "one.bin",   size |-> 1,     type |-> "text/plain", lastModified |-> 2],
      [name |-> "exact.bin", size |-> 32768, type |-> "application/octet-stream", lastModified |-> 3],
      [name |-> "big.bin",   size |-> 50000, type |-> "application/octet-stream", lastModified |-> 4] }

\* A byte sequence with its adjacent extents merged and empty extents dropped.
AppendBytes(bytes, ext) ==
    IF ext.to <= ext.from THEN bytes
    ELSE IF Len(bytes) > 0 /\ bytes[Len(bytes)].src = ext.src
                           /\ bytes[Len(bytes)].to = ext.from
         THEN [bytes EXCEPT ![Len(bytes)].to = ext.to]
         ELSE Append(bytes, ext)

\* The bytes of a File: positions 0 .. size-1 of that file.
FileBytes(file) == AppendBytes(<<>>, [src |-> file.name, from |-> 0, to |-> file.size])

\* Number of bytes of a byte sequence (ArrayBuffer.byteLength).
RECURSIVE ByteLength(_)
ByteLength(bytes) ==
    IF bytes = <<>> THEN 0
    ELSE (bytes[1].to - bytes[1].from) + ByteLength(Tail(bytes))

\* Blob.slice(start, end) for start, end >= 0: both ends are clamped to the
\* size, and the span is never negative.
SliceRange(size, start, end) ==
    LET relativeStart == Min(start, size)
        relativeEnd   == Min(end, size)
        span          == Max(relativeEnd - relativeStart, 0)
    IN  <<relativeStart, relativeStart + span>>

\* file.slice(offset, offset + chunkSize) followed by chunk.arrayBuffer().
FileSlice(file, start, end) ==
    LET rg == SliceRange(file.size, start, end)
    IN  AppendBytes(<<>>, [src |-> file.name, from |-> rg[1], to |-> rg[2]])

\* Mutant of NumChunks: the quotient rounded down, plus one.
NumChunks_FloorPlusOne(size, cs) == (size \div cs) + 1

\* Math.ceil(size / cs) for non-negative integers.
NumChunks(size, cs) == (size + cs - 1) \div cs

\* Mutant of ChunkOffset: the offset of the chunk after.
ChunkOffset_NextChunk(j, cs) == (j + 1) * cs

\* const offset = j * chunkSize
ChunkOffset(j, cs) == j * cs

\* Math.round(((j + 1) / chunks) * 100): Math.round rounds a half up.  n is
\* j + 1; the quotient is exact for the chunk counts of SelectableFiles.
RoundPercent(n, chunks) == (200 * n + chunks) \div (2 * chunks)

\* ------------------------------------------------------------ the channel
\* What connection.send can do with an envelope.  The channel is the
\* external collaborator of the spec's section 6 (send, onError): a write on
\* an open connection is delivered; a write on a connection that is not open
\* fails, and the failure is either thrown by send or signalled through the
\* connection's error event, for which the component registers no handler
\* (it registers 'open' only), so that send simply returns.
WriteOutcomes(c) ==
    IF connState[c] = "open" THEN {"ok"} ELSE {"error", "throw"}

\* --------------------------------------------------------------- the runs
\* A run is one invocation of sendFiles that passed the guard: pc is where it
\* stands ("read": awaiting chunk.arrayBuffer(); "delay": awaiting the 10 ms
\* timer; "done": returned; "aborted": ended by an exception of send), files
\* and conn are the values its closure captured, i and j the loop variables,
\* sent the calls of connection.send it made, in order, each with its outcome.
IdleRun ==
    [pc |-> "idle", files |-> <<>>, conn |-> 0, i |-> 0, j |-> 0, sent |-> <<>>]

\* files.map(file => ({name, size, type, lastModified}))
FileMetadata(fs) ==
    [k \in 1..Len(fs) |->
        [name |-> fs[k].name, size |-> fs[k].size, type |-> fs[k].type,
         lastModified |-> fs[k].lastModified]]

MetadataEnvelope(fs) == [type |-> "metadata", files |-> FileMetadata(fs)]

\* Mutant of ChunkEnvelope: chunkIndex counted from 1.
ChunkEnvelope_FromOne(fs, i, j) ==
    LET file   == fs[i + 1]
        chunks == NumChunks(file.size, chunkSize)
        offset == ChunkOffset(j, chunkSize)
    IN  [type |-> "chunk", fileIndex |-> i, chunkIndex |-> j + 1,
         totalChunks |-> chunks,
         data |-> FileSlice(file, offset, offset + chunkSize)]

\* The chunk envelope of file index i (from 0), chunk j of the run's files.
ChunkEnvelope(fs, i, j) ==
    LET file   == fs[i + 1]
        chunks == NumChunks(file.size, chunkSize)
        offset == ChunkOffset(j, chunkSize)
    IN  [type |-> "chunk", fileIndex |-> i, chunkIndex |-> j,
         totalChunks |-> chunks,
         data |-> FileSlice(file, offset, offset + chunkSize)]

CompleteEnvelope == [type |-> "complete"]

\* connection.send(env) by run record run with the given outcome: the call is
\* logged with what became of it.
Write(run, env, outcome) ==
    [run EXCEPT !.sent = Append(@, [env |-> env, outcome |-> outcome])]

\* setTransferProgress(prev => ({...prev, [`file-${i}`]: progress}))
SetProgress(prog, i, percent) ==
    [k \in DOMAIN prog \cup {i} |-> IF k = i THEN percent ELSE prog[k]]

\* Mutant of RunFiles: the loop reads the current selection (as through a ref)
\* as long as its file index is within it.
RunFiles_Live(run) == IF run.i < Len(files) THEN files ELSE run.files

\* The files the running loop reads: the array the sendFiles closure captured
\* when it was created (useCallback deps [connection, files, toast]).
RunFiles(run) == run.files

\* The first file index >= i0 whose chunk loop has an iteration, else the
\* number of files: for (let i ...) with for (let j = 0; j < chunks; j++).
RECURSIVE NextFileWithChunks(_, _)
NextFileWithChunks(fs, i0) ==
    IF i0 >= Len(fs) THEN Len(fs)
    ELSE IF NumChunks(fs[i0 + 1].size, chunkSize) > 0 THEN i0
         ELSE NextFileWithChunks(fs, i0 + 1)

\* Mutant of EnterFile: 'complete' is sent at the end of every file's chunk
\* loop, not after the outer loop.
EnterFile_CompletePerFile(run, prog, stat, tst, i0, outC) ==
    LET fs  == RunFiles(run)
        k   == NextFileWithChunks(fs, i0)
        run1 == IF i0 > 0 /\ outC # "throw"
                THEN Write(run, CompleteEnvelope, outC) ELSE run
    IN  IF k < Len(fs)
        THEN [run  |-> [run1 EXCEPT !.pc = "read", !.i = k, !.j = 0],
              prog |-> SetProgress(prog, k,
                           RoundPercent(1, NumChunks(fs[k + 1].size, chunkSize))),
              stat |-> stat,
              toast |-> tst]
        ELSE [run  |-> [Write(run, CompleteEnvelope, outC)
                           EXCEPT !.pc = IF outC = "throw" THEN "aborted" ELSE "done",
                                  !.i = k, !.j = 0],
              prog |-> prog,
              stat |-> IF outC = "throw" THEN stat ELSE "completed",
              toast |-> IF outC = "throw" THEN tst ELSE "Transfer Complete"]

\* The loop from the head of file i0 up to the next await or the function's
\* end: either the first iteration of the next file with chunks (slice,
\* setTransferProgress, start of chunk.arrayBuffer()), or the end of the outer
\* loop: send 'complete', setTransferStatus("completed"), toast.  outC is
\* what the write of 'complete' does, if it is reached.
EnterFile(run, prog, stat, tst, i0, outC) ==
    LET fs == RunFiles(run)
        k  == NextFileWithChunks(fs, i0)
    IN  IF k < Len(fs)
        THEN [run  |-> [run EXCEPT !.pc = "read", !.i = k, !.j = 0],
              prog |-> SetProgress(prog, k,
                           RoundPercent(1, NumChunks(fs[k + 1].size, chunkSize))),
              stat |-> stat,
              toast |-> tst]
        ELSE IF outC = "throw"
             THEN [run  |-> [Write(run, CompleteEnvelope, outC)
                                EXCEPT !.pc = "aborted", !.i = k, !.j = 0],
                   prog |-> prog,
                   stat |-> stat,
                   toast |-> tst]
             ELSE [run  |-> [Write(run, CompleteEnvelope, outC)
                                EXCEPT !.pc = "done", !.i = k, !.j = 0],
                   prog |-> prog,
                   stat |-> "completed",
                   toast |-> "Transfer Complete"]

\* The codec of SpecCodec at rest: nothing to split.
CodecIdle ==
    [pc |-> "idle", file |-> [name |-> "B", size |-> 0], chunkSize |-> 1,
     j |-> 0, slots |-> <<>>, out |-> <<>>]

\* ------------------------------------------------------ the content store
\* The files storeFile is called with: the selectable files of at most one
\* byte (a 0-byte file, whose record holds an empty ArrayBuffer, and a file
\* with data).
StorableFiles == {f \in SelectableFiles : f.size <= 1}

\* The FileData that reader.onload builds (createdAt, which no operation
\* reads, is left out).
FileData(id, file) ==
    [id |-> id, name |-> file.name, size |-> file.size, type |-> file.type,
     data |-> FileBytes(file)]

\* fileStorage.has / get / set / delete of a Map kept as the sequence of its
\* values in insertion order: set of a present key replaces the value in
\* place, set of a new key appends, delete closes the gap.
MapHas(mem, id) == \E k \in 1..Len(mem) : mem[k].id = id

MapPos(mem, id) == CHOOSE k \in 1..Len(mem) : mem[k].id = id

MapSet(mem, rec) ==
    IF MapHas(mem, rec.id) THEN [mem EXCEPT ![MapPos(mem, rec.id)] = rec]
    ELSE Append(mem, rec)

MapDelete(mem, id) ==
    LET Other(r) == r.id # id
    IN  SelectSeq(mem, Other)

MapKeys(mem) == {mem[k].id : k \in 1..Len(mem)}

\* The entry saveToStorage writes to localStorage for a record.
IndexEntry(rec) ==
    [id |-> rec.id, name |-> rec.name, size |-> rec.size, type |-> rec.type,
     hasData |-> ByteLength(rec.data) > 0]

\* Array.from(fileStorage.values()).map(...) of saveToStorage.
Serializable(mem) == [k \in 1..Len(mem) |-> IndexEntry(mem[k])]

\* The record initializeFromStorage sets for an entry without data:
\* {...file, data: new ArrayBuffer(0)}.
Placeholder(entry) ==
    [id |-> entry.id, name |-> entry.name, size |-> entry.size,
     type |-> entry.type, data |-> <<>>]

\* fileObjects.forEach(file => { if (!file.hasData) fileStorage.set(...) })
RECURSIVE LoadPlaceholders(_, _)
LoadPlaceholders(mem, entries) ==
    IF entries = <<>> THEN mem
    ELSE LoadPlaceholders(
             IF ~entries[1].hasData THEN MapSet(mem, Placeholder(entries[1]))
             ELSE mem,
             Tail(entries))

\* store.getAll(): the records of the object store in ascending key order.
RECURSIVE GetAll(_)
GetAll(recs) ==
    IF recs = {} THEN <<>>
    ELSE LET first == CHOOSE r \in recs : \A q \in recs : r.id <= q.id
         IN  <<first>> \o GetAll(recs \ {first})

\* Mutant of Overlay: the map is replaced by the records loaded.
Overlay_Replace(mem, dbFiles) == dbFiles

\* dbFiles.forEach(file => fileStorage.set(file.id, file))
RECURSIVE Overlay(_, _)
Overlay(mem, dbFiles) ==
    IF dbFiles = <<>> THEN mem
    ELSE Overlay(MapSet(mem, dbFiles[1]), Tail(dbFiles))

\* A save loop that passes over the first record of the map.
SaveNext_SkipsFirst(mem, cursor) ==
    LET rest == {k \in (cursor + 1)..Len(mem) :
                    k > 1 /\ ByteLength(mem[k].data) > 0}
    IN  IF rest = {} THEN 0 ELSE CHOOSE k \in rest : \A q \in rest : k <= q

\* The iterator of for (const file of fileStorage.values()) in saveToStorage,
\* having passed the first cursor values: the position of the next record
\* with file.data.byteLength > 0, or 0 when the loop ends.
SaveNext(mem, cursor) ==
    LET rest == {k \in (cursor + 1)..Len(mem) : ByteLength(mem[k].data) > 0}
    IN  IF rest = {} THEN 0 ELSE CHOOSE k \in rest : \A q \in rest : k <= q

\* store.put(file) and store.delete(fileId) on an object store keyed by id.
DbPut(recs, rec) == {r \in recs : r.id # rec.id} \cup {rec}

DbDelete(recs, id) == {r \in recs : r.id # id}

\* An operation slot that holds no call.
IdleOp == [kind |-> "idle", pc |-> "idle", id |-> 0, cursor |-> 0,
           failed |-> FALSE, file |-> [name |-> "", size |-> 0, type |-> "",
                                       lastModified |-> 0]]

RetNone == [op |-> "none", id |-> 0, value |-> "", ioError |-> FALSE,
            payload |-> <<>>]

HistNone == [stored |-> {}, deleteCalled |-> {}, deleteDone |-> {},
             ioFailures |-> 0, durable |-> {}]

\* The store when no module has loaded it yet: used by the specifications
\* that do not run the store.
StoreIdle ==
    /\ fileStorage = <<>>
    /\ idb = {}
    /\ localStorage = <<>>
    /\ dbQueue = <<>>
    /\ initPending = FALSE
    /\ ops = [o \in 1..MaxOps |-> IdleOp]
    /\ nextId = 1
    /\ ret = RetNone
    /\ hist = HistNone

\* A ReceiveSession before its first envelope.  buffers maps the fileIndex of
\* each open ReassemblyBuffer to {descriptor, totalChunks, slots,
\* receivedCount}; events are the artifacts and completion events emitted, in
\* order; violations counts the envelopes dropped as ProtocolViolation.
RxInit ==
    [awaiting |-> TRUE, buffers |-> <<>>, events |-> <<>>, violations |-> 0]

\* No envelope has arrived.
ReceiverIdle == [session |-> RxInit, arrived |-> <<>>]

\* ReceiverMode as mounted: useState([]) for both lists (lines 16-17), no
\* toast shown yet.
ViewIdle == [availableFiles |-> <<>>, selectedFiles |-> <<>>, toast |-> "none"]

\* ------------------------------------------------------------------- Init
Init ==
    /\ propGiven \in BOOLEAN
    /\ peerState = "init"
    /\ handlerInstalled = FALSE
    /\ files = <<>>
    /\ connection = 0
    /\ connState = [c \in 1..MaxConns |-> "none"]
    /\ transferStatus = "idle"
    /\ transferProgress = <<>>
    /\ toast = "none"
    /\ runs = [r \in 1..MaxRuns |-> IdleRun]
    /\ codec = CodecIdle
    /\ receiver = ReceiverIdle
    /\ view = ViewIdle
    /\ StoreIdle

\* ---------------------------------------------------------------- actions
\* useEffect / setupPeer: initializePeerConnection resolves (ok) or rejects.
\* After setPeer and setPeerId it calls onConnectionEstablished(id); when the
\* parent passed no such prop the call throws, the catch block runs and
\* peer.on('connection', ...) is never reached.
setupPeer ==
    /\ peerState = "init"
    /\ \E ok \in BOOLEAN :
          /\ peerState' = IF ok THEN "ready" ELSE "failed"
          /\ handlerInstalled' = (ok /\ propGiven)
          /\ toast' = IF ok /\ propGiven THEN toast
                      ELSE "Failed to initialize peer connection"
    /\ UNCHANGED <<storeVars, codec, receiver, view, propGiven, files, connection, connState, transferStatus,
                   transferProgress, runs>>

\* peer.on('connection', conn => ...): setConnection(conn),
\* setTransferStatus("connecting"), and conn.on('open', ...) is registered.
PeerConnection ==
    /\ handlerInstalled
    /\ \E c \in DOMAIN connState :
          /\ connState[c] = "none"
          /\ \A d \in 1..(c - 1) : connState[d] # "none"
          /\ connState' = [connState EXCEPT ![c] = "connecting"]
          /\ connection' = c
    /\ transferStatus' = "connecting"
    /\ UNCHANGED <<storeVars, codec, receiver, view, propGiven, peerState, handlerInstalled, files,
                   transferProgress, toast, runs>>

\* conn.on('open', ...): toast, setTransferStatus("idle").
ConnOpen ==
    /\ \E c \in DOMAIN connState :
          /\ connState[c] = "connecting"
          /\ connState' = [connState EXCEPT ![c] = "open"]
    /\ transferStatus' = "idle"
    /\ toast' = "Ready to transfer files"
    /\ UNCHANGED <<storeVars, codec, receiver, view, propGiven, peerState, handlerInstalled, files, connection,
                   transferProgress, runs>>

\* The connection closes (the peer leaves, the transport fails).  The
\* component registers no 'close' or 'error' handler: its state is untouched.
ConnClose ==
    /\ \E c \in DOMAIN connState :
          /\ connState[c] \in {"connecting", "open"}
          /\ connState' = [connState EXCEPT ![c] = "closed"]
    /\ UNCHANGED <<storeVars, codec, receiver, view, propGiven, peerState, handlerInstalled, files, connection,
                   transferStatus, transferProgress, toast, runs>>

\* handleFileInputChange / handleDrop: setFiles(prev => [...prev, file]).
AddFile ==
    /\ Len(files) < MaxFiles
    /\ \E f \in SelectableFiles : files' = Append(files, f)
    /\ UNCHANGED <<storeVars, codec, receiver, view, propGiven, peerState, handlerInstalled, connection,
                   connState, transferStatus, transferProgress, toast, runs>>

\* removeFile(index): setFiles(prev => prev.filter((_, i) => i !== index)).
removeFile ==
    /\ \E index \in 0..(Len(files) - 1) :
          files' = [k \in 1..(Len(files) - 1) |->
                        IF k <= index THEN files[k] ELSE files[k + 1]]
    /\ UNCHANGED <<storeVars, codec, receiver, view, propGiven, peerState, handlerInstalled, connection,
                   connState, transferStatus, transferProgress, toast, runs>>

\* Mutant of GuardFails: the selection is not looked at.
GuardFails_ConnectionOnly == connection = 0

\* The guard of sendFiles: if (!connection || files.length === 0).
GuardFails == connection = 0 \/ Len(files) = 0

\* sendFiles, from its call to its first await (or its end): the guard with
\* its toast, else setTransferStatus("transferring"), the metadata envelope,
\* and the loop up to the first chunk.arrayBuffer().
sendFiles ==
    /\ IF GuardFails
       THEN /\ toast' = IF connection # 0 THEN "No files selected"
                        ELSE "No active connection"
            /\ UNCHANGED <<transferStatus, transferProgress, runs>>
       ELSE \E r \in DOMAIN runs :
               /\ runs[r].pc = "idle"
               /\ \A q \in 1..(r - 1) : runs[q].pc # "idle"
               /\ \E outM \in WriteOutcomes(connection),
                     outC \in WriteOutcomes(connection) :
                     LET r0 == [IdleRun EXCEPT !.files = files,
                                               !.conn = connection]
                         r1 == Write(r0, MetadataEnvelope(RunFiles(r0)), outM)
                         nx == EnterFile(r1, transferProgress, "transferring",
                                         toast, 0, outC)
                     IN  IF outM = "throw"
                         THEN /\ runs' = [runs EXCEPT ![r] =
                                            [r1 EXCEPT !.pc = "aborted"]]
                              /\ transferStatus' = "transferring"
                              /\ UNCHANGED <<transferProgress, toast>>
                         ELSE /\ runs' = [runs EXCEPT ![r] = nx.run]
                              /\ transferStatus' = nx.stat
                              /\ transferProgress' = nx.prog
                              /\ toast' = nx.toast
    /\ UNCHANGED <<storeVars, codec, receiver, view, propGiven, peerState, handlerInstalled, files,
                   connection, connState>>

\* <Button onClick={sendFiles} disabled={files.length === 0 ||
\*                                      transferStatus === "transferring"}>
SendButtonEnabled == ~(Len(files) = 0 \/ transferStatus = "transferring")

\* A click on the Send button.
ClickSend == SendButtonEnabled /\ sendFiles

\* chunk.arrayBuffer() has resolved: connection.send({type: 'chunk', ...}),
\* then the 10 ms timer is started.
SendChunk ==
    \E r \in DOMAIN runs :
       /\ runs[r].pc = "read"
       /\ \E out \in WriteOutcomes(runs[r].conn) :
             LET env == ChunkEnvelope(RunFiles(runs[r]), runs[r].i, runs[r].j)
                 r1  == Write(runs[r], env, out)
             IN  runs' = [runs EXCEPT ![r] =
                            IF out = "throw"
                            THEN [r1 EXCEPT !.pc = "aborted"]
                            ELSE [r1 EXCEPT !.pc = "delay"]]
       /\ UNCHANGED <<storeVars, codec, receiver, view, propGiven, peerState, handlerInstalled, files, connection,
                      connState, transferStatus, transferProgress, toast>>

\* Mutant of TimerFired: the timer after the last chunk of a file never fires.
TimerFired_MidFileOnly ==
    \E r \in DOMAIN runs :
       /\ runs[r].pc = "delay"
       /\ runs[r].j + 1 < NumChunks(RunFiles(runs[r])[runs[r].i + 1].size,
                                    chunkSize)
       /\ LET run    == runs[r]
              fs     == RunFiles(run)
              chunks == NumChunks(fs[run.i + 1].size, chunkSize)
          IN  IF run.j + 1 < chunks
              THEN /\ runs' = [runs EXCEPT ![r] =
                                 [run EXCEPT !.pc = "read", !.j = run.j + 1]]
                   /\ transferProgress' =
                         SetProgress(transferProgress, run.i,
                                     RoundPercent(run.j + 2, chunks))
                   /\ UNCHANGED <<transferStatus, toast>>
              ELSE \E outC \in WriteOutcomes(run.conn) :
                      LET nx == EnterFile(run, transferProgress, transferStatus,
                                          toast, run.i + 1, outC)
                      IN  /\ runs' = [runs EXCEPT ![r] = nx.run]
                          /\ transferStatus' = nx.stat
                          /\ transferProgress' = nx.prog
                          /\ toast' = nx.toast
       /\ UNCHANGED <<storeVars, codec, receiver, view, propGiven, peerState, handlerInstalled, files,
                      connection, connState>>

\* The 10 ms timer has fired: j++, and either the next iteration of the
\* chunk loop up to its await, or the next file, or the end of the function.
TimerFired ==
    \E r \in DOMAIN runs :
       /\ runs[r].pc = "delay"
       /\ LET run    == runs[r]
              fs     == RunFiles(run)
              chunks == NumChunks(fs[run.i + 1].size, chunkSize)
          IN  IF run.j + 1 < chunks
              THEN /\ runs' = [runs EXCEPT ![r] =
                                 [run EXCEPT !.pc = "read", !.j = run.j + 1]]
                   /\ transferProgress' =
                         SetProgress(transferProgress, run.i,
                                     RoundPercent(run.j + 2, chunks))
                   /\ UNCHANGED <<transferStatus, toast>>
              ELSE \E outC \in WriteOutcomes(run.conn) :
                      LET nx == EnterFile(run, transferProgress, transferStatus,
                                          toast, run.i + 1, outC)
                      IN  /\ runs' = [runs EXCEPT ![r] = nx.run]
                          /\ transferStatus' = nx.stat
                          /\ transferProgress' = nx.prog
                          /\ toast' = nx.toast
       /\ UNCHANGED <<storeVars, codec, receiver, view, propGiven, peerState, handlerInstalled, files,
                      connection, connState>>

Next ==
    \/ setupPeer
    \/ PeerConnection
    \/ ConnOpen
    \/ ConnClose
    \/ AddFile
    \/ removeFile
    \/ sendFiles
    \/ ClickSend
    \/ SendChunk
    \/ TimerFired

Spec == Init /\ [][Next]_vars

\* Spec with its scheduling: a chunk.arrayBuffer() that is awaited resolves
\* and a 10 ms timer that was started fires, and the continuation then runs.
SpecLive == Spec /\ WF_vars(SendChunk) /\ WF_vars(TimerFired)

\* ----------------------------------------------------- several sessions
\* SpecSessions is the component with a selection made, MaxSessions peers
\* that may connect and as many sendFiles calls, each started by a click on
\* the Send button.
SessionFiles == {f \in SelectableFiles : f.size \in {1, 32768}}

SessionSelections ==
    {<<f>> : f \in SessionFiles} \cup {<<f, g>> : f, g \in SessionFiles}

InitSessions ==
    /\ propGiven = TRUE
    /\ peerState = "init"
    /\ handlerInstalled = FALSE
    /\ files \in SessionSelections
    /\ connection = 0
    /\ connState = [c \in 1..MaxSessions |-> "none"]
    /\ transferStatus = "idle"
    /\ transferProgress = <<>>
    /\ toast = "none"
    /\ runs = [r \in 1..MaxSessions |-> IdleRun]
    /\ codec = CodecIdle
    /\ receiver = ReceiverIdle
    /\ view = ViewIdle
    /\ StoreIdle

NextSessions ==
    \/ setupPeer
    \/ PeerConnection
    \/ ConnOpen
    \/ ConnClose
    \/ ClickSend
    \/ SendChunk
    \/ TimerFired

SpecSessions == InitSessions /\ [][NextSessions]_vars


\* ----------------------------------------------------- the receiving side
\* ChunkCodec.reassemble(slots, expectedTotal): the payloads of the slots
\* 0 .. expectedTotal-1 concatenated in ascending chunkIndex.
RECURSIVE ConcatBytes(_, _)
ConcatBytes(a, b) ==
    IF b = <<>> THEN a ELSE ConcatBytes(AppendBytes(a, b[1]), Tail(b))

RECURSIVE ReassembleFrom(_, _, _)
ReassembleFrom(slots, k, expectedTotal) ==
    IF k >= expectedTotal THEN <<>>
    ELSE ConcatBytes(slots[k], ReassembleFrom(slots, k + 1, expectedTotal))

\* IncompleteTransfer: a slot of [0, expectedTotal) is absent.
ReassembleFails(slots, expectedTotal) ==
    \E k \in 0..(expectedTotal - 1) : k \notin DOMAIN slots

Reassemble(slots, expectedTotal) == ReassembleFrom(slots, 0, expectedTotal)

\* totalChunks = ceil(size / CHUNK_SIZE), CHUNK_SIZE = 16384.
RxTotalChunks(size) == (size + 16383) \div 16384

\* On Metadata: one ReassemblyBuffer per file, fileIndex its position in the
\* list, sized totalChunks = ceil(size / CHUNK_SIZE).
RxMetadata(rx, env) ==
    [rx EXCEPT
        !.awaiting = FALSE,
        !.buffers = [k \in 0..(Len(env.files) - 1) |->
                        [descriptor |-> env.files[k + 1],
                         totalChunks |-> RxTotalChunks(env.files[k + 1].size),
                         slots |-> <<>>,
                         receivedCount |-> 0]]]

\* Mutant of RxChunk: a chunk for a fileIndex with no buffer is emitted as a
\* file of its own.
RxChunk_AnyIndex(rx, env) ==
    IF rx.awaiting
    THEN [rx EXCEPT !.violations = @ + 1]
    ELSE IF env.fileIndex \notin DOMAIN rx.buffers
    THEN [rx EXCEPT !.events = Append(@,
             [kind |-> "artifact", fileIndex |-> env.fileIndex,
              descriptor |-> [name |-> "", size |-> ByteLength(env.data),
                              type |-> ""],
              bytes |-> env.data])]
    ELSE LET buf   == rx.buffers[env.fileIndex]
             slots == [k \in DOMAIN buf.slots \cup {env.chunkIndex} |->
                          IF k = env.chunkIndex THEN env.data ELSE buf.slots[k]]
             count == buf.receivedCount + 1
             rest  == [k \in DOMAIN rx.buffers \ {env.fileIndex} |-> rx.buffers[k]]
         IN  IF count = buf.totalChunks
             THEN IF ReassembleFails(slots, buf.totalChunks)
                  THEN [rx EXCEPT !.buffers = rest,
                                  !.events = Append(@, [kind |-> "IncompleteTransfer",
                                                        fileIndex |-> env.fileIndex])]
                  ELSE [rx EXCEPT !.buffers = rest,
                                  !.events = Append(@,
                                      [kind |-> "artifact",
                                       fileIndex |-> env.fileIndex,
                                       descriptor |-> buf.descriptor,
                                       bytes |-> Reassemble(slots, buf.totalChunks)])]
             ELSE [rx EXCEPT !.buffers =
                      [k \in DOMAIN rx.buffers |->
                          IF k = env.fileIndex
                          THEN [buf EXCEPT !.slots = slots, !.receivedCount = count]
                          ELSE rx.buffers[k]]]

\* On Chunk: the payload is written to its slot, receivedCount is
\* incremented, and when receivedCount = totalChunks the file is assembled,
\* emitted as an artifact, and its buffer released.  A chunk before Metadata
\* or for a fileIndex with no buffer is dropped as a ProtocolViolation.
RxChunk(rx, env) ==
    IF rx.awaiting \/ env.fileIndex \notin DOMAIN rx.buffers
    THEN [rx EXCEPT !.violations = @ + 1]
    ELSE LET buf   == rx.buffers[env.fileIndex]
             slots == [k \in DOMAIN buf.slots \cup {env.chunkIndex} |->
                          IF k = env.chunkIndex THEN env.data ELSE buf.slots[k]]
             count == buf.receivedCount + 1
             rest  == [k \in DOMAIN rx.buffers \ {env.fileIndex} |-> rx.buffers[k]]
         IN  IF count = buf.totalChunks
             THEN IF ReassembleFails(slots, buf.totalChunks)
                  THEN [rx EXCEPT !.buffers = rest,
                                  !.events = Append(@, [kind |-> "IncompleteTransfer",
                                                        fileIndex |-> env.fileIndex])]
                  ELSE [rx EXCEPT !.buffers = rest,
                                  !.events = Append(@,
                                      [kind |-> "artifact",
                                       fileIndex |-> env.fileIndex,
                                       descriptor |-> buf.descriptor,
                                       bytes |-> Reassemble(slots, buf.totalChunks)])]
             ELSE [rx EXCEPT !.buffers =
                      [k \in DOMAIN rx.buffers |->
                          IF k = env.fileIndex
                          THEN [buf EXCEPT !.slots = slots, !.receivedCount = count]
                          ELSE rx.buffers[k]]]

\* On Complete: the session-level completion event; before Metadata it is a
\* ProtocolViolation.
RxComplete(rx) ==
    IF rx.awaiting
    THEN [rx EXCEPT !.violations = @ + 1]
    ELSE [rx EXCEPT !.events = Append(@, [kind |-> "complete"])]

RxStep(rx, env) ==
    IF env.type = "metadata" THEN RxMetadata(rx, env)
    ELSE IF env.type = "chunk" THEN RxChunk(rx, env)
    ELSE RxComplete(rx)

\* The session after the envelopes envs have arrived in this order.
RECURSIVE Receive(_, _)
Receive(rx, envs) ==
    IF envs = <<>> THEN rx ELSE Receive(RxStep(rx, envs[1]), Tail(envs))

\* ------------------------------------------------------ reading a run's log
\* The envelopes a run handed to connection.send, in order.
Envelopes(run) == [k \in 1..Len(run.sent) |-> run.sent[k].env]

\* The envelopes of a run the channel delivered, in the order sent.
RECURSIVE DeliveredFrom(_)
DeliveredFrom(sent) ==
    IF sent = <<>> THEN <<>>
    ELSE IF sent[1].outcome = "ok"
         THEN <<sent[1].env>> \o DeliveredFrom(Tail(sent))
         ELSE DeliveredFrom(Tail(sent))

Delivered(run) == DeliveredFrom(run.sent)

\* Every write of the run so far went through: the channel was reliable.
AllDelivered(run) == \A k \in 1..Len(run.sent) : run.sent[k].outcome = "ok"

\* The events a receiver emits for the run.
RxEvents(run) == Receive(RxInit, Delivered(run)).events

\* The artifacts among events, in order of emission.
RECURSIVE Artifacts(_)
Artifacts(events) ==
    IF events = <<>> THEN <<>>
    ELSE IF events[1].kind = "artifact"
         THEN <<events[1]>> \o Artifacts(Tail(events))
         ELSE Artifacts(Tail(events))

CountKind(events, kind) ==
    Cardinality({k \in 1..Len(events) : events[k].kind = kind})

\* -------------------------------------------------------------- the codec
\* SpecCodec runs the chunk loop of sendFiles (lines 182-188) on one byte
\* sequence B of a length in 0 .. MaxLen with a chunk size in
\* 1 .. MaxChunkSize, then reassembles the chunks.  The bytes of B are
\* symbolic (position p of B), so the run stands for every byte sequence of
\* that length.
senderVars == <<propGiven, peerState, handlerInstalled, files, connection,
                connState, transferStatus, transferProgress, toast, runs>>

InitCodec ==
    /\ propGiven = TRUE
    /\ peerState = "init"
    /\ handlerInstalled = FALSE
    /\ files = <<>>
    /\ connection = 0
    /\ connState = [c \in 1..MaxConns |-> "none"]
    /\ transferStatus = "idle"
    /\ transferProgress = <<>>
    /\ toast = "none"
    /\ runs = [r \in 1..MaxRuns |-> IdleRun]
    /\ \E n \in 0..MaxLen, cs \in 1..MaxChunkSize :
          codec = [CodecIdle EXCEPT !.pc = "split", !.file.size = n,
                                    !.chunkSize = cs]
    /\ StoreIdle
    /\ receiver = ReceiverIdle
    /\ view = ViewIdle

\* One iteration of for (let j = 0; j < chunks; j++): offset, file.slice,
\* chunk.arrayBuffer(); the payload goes to slot j.
SplitChunk ==
    /\ codec.pc = "split"
    /\ codec.j < NumChunks(codec.file.size, codec.chunkSize)
    /\ LET offset == ChunkOffset(codec.j, codec.chunkSize)
           data   == FileSlice(codec.file, offset, offset + codec.chunkSize)
       IN  codec' = [codec EXCEPT
                        !.slots = [k \in DOMAIN codec.slots \cup {codec.j} |->
                                      IF k = codec.j THEN data ELSE codec.slots[k]],
                        !.j = codec.j + 1]
    /\ UNCHANGED <<senderVars, storeVars, receiver, view>>

\* The loop condition j < chunks fails: the split is complete.
SplitDone ==
    /\ codec.pc = "split"
    /\ ~(codec.j < NumChunks(codec.file.size, codec.chunkSize))
    /\ codec' = [codec EXCEPT !.pc = "reassemble"]
    /\ UNCHANGED <<senderVars, storeVars, receiver, view>>

\* reassemble(slots, expectedTotal) of the chunks produced.
ReassembleChunks ==
    /\ codec.pc = "reassemble"
    /\ codec' = [codec EXCEPT !.pc = "done",
                              !.out = Reassemble(codec.slots, codec.j)]
    /\ UNCHANGED <<senderVars, storeVars, receiver, view>>

NextCodec == SplitChunk \/ SplitDone \/ ReassembleChunks

SpecCodec == InitCodec /\ [][NextCodec]_vars

\* ------------------------------------------------------------ the receiver
\* SpecRx gives one ReceiveSession up to MaxEnvelopes envelopes, any of them
\* in any order: the channel's peer is not bound to what sendFiles sends.
\* The files a Metadata declares have one chunk (1 byte) or two (16385).
RxFileSizes == {1, 16385}

RxDescriptor(size) == [name |-> "rx.bin", size |-> size, type |-> ""]

RxFileLists ==
    UNION {[1..n -> {RxDescriptor(sz) : sz \in RxFileSizes}] : n \in 0..MaxRxFiles}

\* The payload of a chunk: the bytes of the sender's file fileIndex from
\* chunkIndex * 16384, a whole chunk or the single byte that ends the file.
RxPayload(fileIndex, chunkIndex, len) ==
    <<[src |-> fileIndex, from |-> chunkIndex * 16384,
       to |-> chunkIndex * 16384 + len]>>

RxMetadataEnvelopes ==
    {[type |-> "metadata", files |-> fl] : fl \in RxFileLists}

RxChunkEnvelopes ==
    {[type |-> "chunk", fileIndex |-> i, chunkIndex |-> 0,
      data |-> RxPayload(i, 0, len)] : i \in 0..MaxRxIndex, len \in {1, 16384}}
    \cup {[type |-> "chunk", fileIndex |-> i, chunkIndex |-> 1,
           data |-> RxPayload(i, 1, 1)] : i \in 0..MaxRxIndex}

RxCompleteEnvelope == [type |-> "complete"]

InitRx ==
    /\ propGiven = TRUE
    /\ peerState = "init"
    /\ handlerInstalled = FALSE
    /\ files = <<>>
    /\ connection = 0
    /\ connState = [c \in 1..MaxConns |-> "none"]
    /\ transferStatus = "idle"
    /\ transferProgress = <<>>
    /\ toast = "none"
    /\ runs = [r \in 1..MaxRuns |-> IdleRun]
    /\ codec = CodecIdle
    /\ StoreIdle
    /\ receiver = ReceiverIdle
    /\ view = ViewIdle

\* The receiver after the envelope env has arrived at the session.
RxArrived(env) ==
    [session |-> RxStep(receiver.session, env),
     arrived |-> Append(receiver.arrived, env)]

RxOnMetadata ==
    /\ Len(receiver.arrived) < MaxEnvelopes
    /\ \E env \in RxMetadataEnvelopes : receiver' = RxArrived(env)
    /\ UNCHANGED <<senderVars, storeVars, codec, view>>

RxOnChunk ==
    /\ Len(receiver.arrived) < MaxEnvelopes
    /\ \E env \in RxChunkEnvelopes : receiver' = RxArrived(env)
    /\ UNCHANGED <<senderVars, storeVars, codec, view>>

RxOnComplete ==
    /\ Len(receiver.arrived) < MaxEnvelopes
    /\ receiver' = RxArrived(RxCompleteEnvelope)
    /\ UNCHANGED <<senderVars, storeVars, codec, view>>

NextRx == RxOnMetadata \/ RxOnChunk \/ RxOnComplete

SpecRx == InitRx /\ [][NextRx]_vars

\* --------------------------------------------------- the store's operations
\* SpecStore starts when the module has loaded on empty storage:
\* initializeFromStorage (line 200, not awaited) has found no saved entries
\* and awaits listFilesFromDB.  One step is one task: a call with what it
\* does up to its first await on IndexedDB, or the completion of a request
\* with the continuation of the call that awaited it.
GetAllRequest == [kind |-> "getAll", op |-> 0, id |-> 0, rec |-> <<>>]

PutRequest(o, rec) == [kind |-> "put", op |-> o, id |-> rec.id, rec |-> <<rec>>]

DeleteRequest(o, id) == [kind |-> "delete", op |-> o, id |-> id, rec |-> <<>>]

InitStore ==
    /\ propGiven = TRUE
    /\ peerState = "init"
    /\ handlerInstalled = FALSE
    /\ files = <<>>
    /\ connection = 0
    /\ connState = [c \in 1..MaxConns |-> "none"]
    /\ transferStatus = "idle"
    /\ transferProgress = <<>>
    /\ toast = "none"
    /\ runs = [r \in 1..MaxRuns |-> IdleRun]
    /\ codec = CodecIdle
    /\ receiver = ReceiverIdle
    /\ view = ViewIdle
    /\ fileStorage = LoadPlaceholders(<<>>, <<>>)
    /\ idb = {}
    /\ localStorage = <<>>
    /\ dbQueue = <<GetAllRequest>>
    /\ initPending = TRUE
    /\ ops = [o \in 1..MaxOps |-> IdleOp]
    /\ nextId = 1
    /\ ret = RetNone
    /\ hist = HistNone

\* The slot a new call takes: the first that holds no call.
FreeOp(o) ==
    /\ o \in 1..MaxOps
    /\ ops[o].kind = "idle"
    /\ \A q \in 1..(o - 1) : ops[q].kind # "idle"

\* The loop of saveToStorage (lines 189-193) of the call in slot o from the
\* iterator position cursor: up to the next await saveFileToDB(file), or to
\* the end of saveToStorage, after which the call completes.
SaveStep(o, op, mem, cursor) ==
    LET k == SaveNext(mem, cursor)
    IN  IF k = 0
        THEN [op |-> IdleOp, reqs |-> <<>>, done |-> TRUE]
        ELSE [op |-> [op EXCEPT !.pc = "saving", !.cursor = k],
              reqs |-> <<PutRequest(o, mem[k])>>, done |-> FALSE]

\* What a completed call hands to its caller: storeFile resolves with the
\* id (line 273), deleteFile with result (line 309); neither carries the
\* outcome of the durable writes (ioError is what the call knew and dropped).
OpResult(op) ==
    IF op.kind = "put"
    THEN [op |-> "storeFile", id |-> op.id, value |-> "resolved",
          ioError |-> op.failed, payload |-> <<>>]
    ELSE [op |-> "deleteFile", id |-> op.id, value |-> "true",
          ioError |-> op.failed, payload |-> <<>>]

HistDone(h, op) ==
    IF op.kind = "put"
    THEN [h EXCEPT !.stored = @ \cup {FileData(op.id, op.file)},
                   !.durable = IF /\ op.file.size > 0 /\ h.ioFailures = 0
                                  /\ op.id \notin h.deleteCalled
                               THEN @ \cup {FileData(op.id, op.file)}
                               ELSE @]
    ELSE [h EXCEPT !.deleteDone = @ \cup {op.id}]

\* storeFile(file), lines 248-251 and 276-277: reader.readAsArrayBuffer(file).
storeFile ==
    /\ \E file \in StorableFiles, o \in 1..MaxOps :
          /\ FreeOp(o)
          /\ nextId + Cardinality({q \in 1..MaxOps : ops[q].pc = "reading"})
                <= MaxIds
          /\ ops' = [ops EXCEPT ![o] = [IdleOp EXCEPT !.kind = "put",
                                                     !.pc = "reading",
                                                     !.file = file]]
    /\ ret' = RetNone
    /\ UNCHANGED <<fileStorage, idb, localStorage, dbQueue, initPending,
                   nextId, hist, senderVars, codec, receiver, view>>

\* reader.onload, lines 252-274: the record is built and set, saveToStorage
\* writes the metadata index and runs to its first await; when nothing has
\* data to save, the call resolves at once.
ReaderLoad ==
    \E o \in 1..MaxOps :
       /\ ops[o].pc = "reading"
       /\ LET op1 == [ops[o] EXCEPT !.id = nextId]
              mem == MapSet(fileStorage, FileData(nextId, ops[o].file))
              st  == SaveStep(o, op1, mem, 0)
          IN  /\ fileStorage' = mem
              /\ localStorage' = Serializable(mem)
              /\ nextId' = nextId + 1
              /\ dbQueue' = dbQueue \o st.reqs
              /\ ops' = [ops EXCEPT ![o] = st.op]
              /\ ret' = IF st.done THEN OpResult(op1) ELSE RetNone
              /\ hist' = IF st.done THEN HistDone(hist, op1) ELSE hist
       /\ UNCHANGED <<idb, initPending, senderVars, codec, receiver, view>>

\* reader.onerror, line 276: the promise of storeFile rejects.
ReaderError ==
    \E o \in 1..MaxOps :
       /\ ops[o].pc = "reading"
       /\ ops' = [ops EXCEPT ![o] = IdleOp]
       /\ ret' = [op |-> "storeFile", id |-> 0, value |-> "rejected",
                  ioError |-> FALSE, payload |-> <<>>]
       /\ UNCHANGED <<fileStorage, idb, localStorage, dbQueue, initPending,
                      nextId, hist, senderVars, codec, receiver, view>>

\* deleteFile(fileId), lines 303-310, up to await deleteFileFromDB(fileId).
\* An absent id resolves false without touching anything.  The iterators of
\* the saveToStorage loops in flight skip the record removed: those that had
\* passed it stand one position lower.
deleteFileCall(fileId) ==
    /\ IF ~MapHas(fileStorage, fileId)
       THEN /\ ret' = [op |-> "deleteFile", id |-> fileId, value |-> "false",
                       ioError |-> FALSE, payload |-> <<>>]
            /\ UNCHANGED <<fileStorage, dbQueue, ops, hist>>
       ELSE \E o \in 1..MaxOps :
              /\ FreeOp(o)
              /\ fileStorage' = MapDelete(fileStorage, fileId)
              /\ dbQueue' = Append(dbQueue, DeleteRequest(o, fileId))
              /\ ops' = [q \in 1..MaxOps |->
                           IF q = o
                           THEN [IdleOp EXCEPT !.kind = "delete",
                                               !.pc = "dbdelete",
                                               !.id = fileId]
                           ELSE IF /\ ops[q].pc = "saving"
                                   /\ ops[q].cursor >= MapPos(fileStorage, fileId)
                                THEN [ops[q] EXCEPT !.cursor = @ - 1]
                                ELSE ops[q]]
              /\ hist' = [hist EXCEPT
                            !.deleteCalled = @ \cup {fileId},
                            !.durable = {f \in @ : f.id # fileId}]
              /\ ret' = RetNone
    /\ UNCHANGED <<idb, localStorage, initPending, nextId>>

\* deleteFile called with any id, by a caller other than the receiver view.
deleteFile ==
    /\ \E fileId \in 1..MaxIds : deleteFileCall(fileId)
    /\ UNCHANGED <<senderVars, codec, receiver, view>>

\* Whether IndexedDB serves the request at the head of the queue (TRUE) or
\* fails it (initDB rejects or request.onerror fires).
DbOutcomes == IF hist.ioFailures < MaxFailures THEN BOOLEAN ELSE {TRUE}

DbFailed(h, ok) == IF ok THEN h ELSE [h EXCEPT !.ioFailures = @ + 1]

\* listFilesFromDB resolves (lines 121-142; [] on failure) and
\* initializeFromStorage overlays the records on the map (lines 163-166).
listFilesFromDB ==
    /\ dbQueue # <<>> /\ Head(dbQueue).kind = "getAll"
    /\ \E ok \in DbOutcomes :
          /\ fileStorage' = Overlay(fileStorage,
                                    IF ok THEN GetAll(idb) ELSE <<>>)
          /\ hist' = DbFailed(hist, ok)
    /\ initPending' = FALSE
    /\ dbQueue' = Tail(dbQueue)
    /\ ret' = RetNone
    /\ UNCHANGED <<idb, localStorage, ops, nextId, senderVars, codec, receiver, view>>

\* saveFileToDB resolves (lines 73-94; false on failure, which saveToStorage
\* ignores, line 191) and the loop of saveToStorage goes on; at its end
\* storeFile resolves with the id (line 273), deleteFile with true (line 309).
saveFileToDB ==
    /\ dbQueue # <<>> /\ Head(dbQueue).kind = "put"
    /\ \E ok \in DbOutcomes :
          LET req == Head(dbQueue)
              o   == req.op
              op1 == [ops[o] EXCEPT !.failed = @ \/ ~ok]
              st  == SaveStep(o, op1, fileStorage, op1.cursor)
          IN  /\ idb' = IF ok THEN DbPut(idb, req.rec[1]) ELSE idb
              /\ dbQueue' = Tail(dbQueue) \o st.reqs
              /\ ops' = [ops EXCEPT ![o] = st.op]
              /\ ret' = IF st.done THEN OpResult(op1) ELSE RetNone
              /\ hist' = IF st.done THEN HistDone(DbFailed(hist, ok), op1)
                         ELSE DbFailed(hist, ok)
    /\ UNCHANGED <<fileStorage, localStorage, initPending, nextId, senderVars,
                   codec, receiver, view>>

\* deleteFileFromDB resolves (lines 97-118; false on failure, ignored by
\* line 306) and deleteFile calls saveToStorage (line 307): the metadata
\* index is rewritten from the map and the records with data are saved again.
deleteFileFromDB ==
    /\ dbQueue # <<>> /\ Head(dbQueue).kind = "delete"
    /\ \E ok \in DbOutcomes :
          LET req == Head(dbQueue)
              o   == req.op
              op1 == [ops[o] EXCEPT !.failed = @ \/ ~ok]
              st  == SaveStep(o, op1, fileStorage, 0)
          IN  /\ idb' = IF ok THEN DbDelete(idb, req.id) ELSE idb
              /\ localStorage' = Serializable(fileStorage)
              /\ dbQueue' = Tail(dbQueue) \o st.reqs
              /\ ops' = [ops EXCEPT ![o] = st.op]
              /\ ret' = IF st.done THEN OpResult(op1) ELSE RetNone
              /\ hist' = IF st.done THEN HistDone(DbFailed(hist, ok), op1)
                         ELSE DbFailed(hist, ok)
    /\ UNCHANGED <<fileStorage, initPending, nextId, senderVars, codec, receiver, view>>

\* Mutant of GetResult: a miss falls through to the object store.
GetResult_FallThrough(fileId) ==
    IF MapHas(fileStorage, fileId)
    THEN [op |-> "getFileData", id |-> fileId, value |-> "record",
          ioError |-> FALSE,
          payload |-> <<fileStorage[MapPos(fileStorage, fileId)]>>]
    ELSE IF fileId \in {r.id : r \in idb}
         THEN [op |-> "getFileData", id |-> fileId, value |-> "record",
               ioError |-> FALSE,
               payload |-> <<CHOOSE r \in idb : r.id = fileId>>]
         ELSE [op |-> "getFileData", id |-> fileId, value |-> "null",
               ioError |-> FALSE, payload |-> <<>>]

\* getFileData(fileId), lines 291-293: fileStorage.get(fileId) || null.
GetResult(fileId) ==
    IF MapHas(fileStorage, fileId)
    THEN [op |-> "getFileData", id |-> fileId, value |-> "record",
          ioError |-> FALSE,
          payload |-> <<fileStorage[MapPos(fileStorage, fileId)]>>]
    ELSE [op |-> "getFileData", id |-> fileId, value |-> "null",
          ioError |-> FALSE, payload |-> <<>>]

\* Mutant of ListSource: the list is taken from the metadata index.
ListSource_Index == localStorage

\* The map the list is taken from.
ListSource == fileStorage

\* listFiles(), lines 296-300.
ListResult ==
    [op |-> "listFiles", id |-> 0, value |-> "list", ioError |-> FALSE,
     payload |-> [k \in 1..Len(ListSource) |->
                     [id |-> ListSource[k].id, name |-> ListSource[k].name,
                      size |-> ListSource[k].size, type |-> ListSource[k].type]]]

\* Mutant of BlobResult: no check for an empty buffer.
BlobResult_NoEmptyCheck(fileId) ==
    IF ~MapHas(fileStorage, fileId)
    THEN [op |-> "getFileBlobUrl", id |-> fileId, value |-> "null",
          ioError |-> FALSE, payload |-> <<>>]
    ELSE LET file == fileStorage[MapPos(fileStorage, fileId)]
         IN  [op |-> "getFileBlobUrl", id |-> fileId, value |-> "url",
              ioError |-> FALSE,
              payload |-> <<[data |-> file.data,
                             type |-> IF file.type = ""
                                      THEN "application/octet-stream"
                                      ELSE file.type]>>]

\* getFileBlobUrl(fileId), lines 313-324: null for an absent record and for
\* one with an empty buffer, else the URL of a Blob of the data with the
\* record's type (or application/octet-stream).
BlobResult(fileId) ==
    LET null == [op |-> "getFileBlobUrl", id |-> fileId, value |-> "null",
                 ioError |-> FALSE, payload |-> <<>>]
    IN  IF ~MapHas(fileStorage, fileId) THEN null
        ELSE LET file == fileStorage[MapPos(fileStorage, fileId)]
             IN  IF ByteLength(file.data) = 0 THEN null
                 ELSE [op |-> "getFileBlobUrl", id |-> fileId, value |-> "url",
                       ioError |-> FALSE,
                       payload |-> <<[data |-> file.data,
                                      type |-> IF file.type = ""
                                               THEN "application/octet-stream"
                                               ELSE file.type]>>]

\* The synchronous reads: each returns its result and touches nothing.
getFileData ==
    /\ \E fileId \in 1..MaxIds : ret' = GetResult(fileId)
    /\ UNCHANGED <<fileStorage, idb, localStorage, dbQueue, initPending, ops,
                   nextId, hist, senderVars, codec, receiver, view>>

listFiles ==
    /\ ret' = ListResult
    /\ UNCHANGED <<fileStorage, idb, localStorage, dbQueue, initPending, ops,
                   nextId, hist, senderVars, codec, receiver, view>>

getFileBlobUrl ==
    /\ \E fileId \in 1..MaxIds : ret' = BlobResult(fileId)
    /\ UNCHANGED <<fileStorage, idb, localStorage, dbQueue, initPending, ops,
                   nextId, hist, senderVars, codec, receiver, view>>

\* ------------------------------------------------------- the receiver view
\* ReceiverMode.tsx: the list of available files, the files selected for
\* saving and the toast shown last.  One step is one handler.
AvailableIds == {view.availableFiles[k].id : k \in 1..Len(view.availableFiles)}

SelectedIds == {view.selectedFiles[k].id : k \in 1..Len(view.selectedFiles)}

\* prev.filter(file => file.id !== fileId)
WithoutId(list, fileId) == SelectSeq(list, LAMBDA e : e.id # fileId)

\* What if (...) makes of a value: a Promise is an object, and every object
\* is truthy whatever it resolves to later.
Truthy(v) == v \notin {"false", "null", "undefined"}

\* refreshFileList, lines 21-36 (run by the mount effect, lines 38-40, and by
\* the Refresh button): setAvailableFiles(listFiles()).
refreshFileList ==
    /\ view' = [view EXCEPT !.availableFiles = ListResult.payload]
    /\ ret' = ListResult
    /\ UNCHANGED <<fileStorage, idb, localStorage, dbQueue, initPending, ops,
                   nextId, hist, senderVars, codec, receiver>>

\* downloadFile(fileId), lines 42-87, for a file of the list shown: without
\* a URL it reports 'Download Error'; else the file joins the selection,
\* unless it is there already, and 'File Selected' is reported.
downloadFile ==
    /\ \E fileId \in AvailableIds :
          LET file == view.availableFiles[
                          CHOOSE k \in 1..Len(view.availableFiles) :
                              view.availableFiles[k].id = fileId]
              url  == BlobResult(fileId)
          IN  /\ ret' = url
              /\ view' =
                  IF url.value = "null"
                  THEN [view EXCEPT !.toast = "Download Error"]
                  ELSE [view EXCEPT
                          !.selectedFiles =
                              IF fileId \in SelectedIds THEN @
                              ELSE Append(@, [id |-> fileId, name |-> file.name,
                                              url |-> url.payload[1],
                                              size |-> file.size]),
                          !.toast = "File Selected"]
    /\ UNCHANGED <<fileStorage, idb, localStorage, dbQueue, initPending, ops,
                   nextId, hist, senderVars, codec, receiver>>

\* removeSelectedFile(fileId), lines 98-104, for a file of the selection.
removeSelectedFile ==
    /\ \E fileId \in SelectedIds :
          view' = [view EXCEPT !.selectedFiles = WithoutId(@, fileId),
                               !.toast = "File Removed"]
    /\ UNCHANGED <<storeVars, senderVars, codec, receiver>>

\* removeAvailableFile(fileId), lines 107-123: deleteFile(fileId) runs up to
\* its first await and hands back a Promise; the if tests that Promise.
removeAvailableFileOf(fileId) ==
    /\ deleteFileCall(fileId)
    /\ view' = IF Truthy("Promise")
               THEN [view EXCEPT !.availableFiles = WithoutId(@, fileId),
                                 !.selectedFiles = WithoutId(@, fileId),
                                 !.toast = "File Deleted"]
               ELSE [view EXCEPT !.toast = "Delete Failed"]
    /\ UNCHANGED <<senderVars, codec, receiver>>

\* The Trash button of a file of the list shown.
removeAvailableFile == \E fileId \in AvailableIds : removeAvailableFileOf(fileId)

\* No call is in flight and no request is queued.
Quiescent ==
    /\ dbQueue = <<>>
    /\ ~initPending
    /\ \A o \in 1..MaxOps : ops[o].kind = "idle"

\* The page is loaded again, at any moment (a reload or a crash): the calls
\* in flight end with the page and the requests not yet served are dropped;
\* the module runs from its top (line 22, line 200), so the map is rebuilt
\* from the metadata index (lines 148-160) and initializeFromStorage awaits
\* listFilesFromDB.
Restart ==
    /\ fileStorage' = LoadPlaceholders(<<>>, localStorage)
    /\ dbQueue' = <<GetAllRequest>>
    /\ initPending' = TRUE
    /\ ops' = [o \in 1..MaxOps |-> IdleOp]
    /\ hist' = [hist EXCEPT !.stored = {}, !.deleteCalled = {}]
    /\ ret' = [op |-> "restart", id |-> 0, value |-> "", ioError |-> FALSE,
               payload |-> <<>>]
    /\ view' = ViewIdle
    /\ UNCHANGED <<idb, localStorage, nextId, senderVars, codec, receiver>>

NextStore ==
    \/ storeFile
    \/ ReaderLoad
    \/ ReaderError
    \/ deleteFile
    \/ listFilesFromDB
    \/ saveFileToDB
    \/ deleteFileFromDB
    \/ getFileData
    \/ listFiles
    \/ getFileBlobUrl
    \/ Restart

SpecStore == InitStore /\ [][NextStore]_vars

\* The store with the receiver view mounted on it: files are stored by the
\* sending side of the page, everything else is done through the view.
NextView ==
    \/ storeFile
    \/ ReaderLoad
    \/ ReaderError
    \/ listFilesFromDB
    \/ saveFileToDB
    \/ deleteFileFromDB
    \/ refreshFileList
    \/ downloadFile
    \/ removeSelectedFile
    \/ removeAvailableFile
    \/ Restart

SpecView == InitStore /\ [][NextView]_vars

\* ----------------------------------------------------------------- claims
\* C1 (as claimed): for every non-empty file set sent by a run to its end
\* over a channel that delivered every envelope, the receiver emits exactly
\* one artifact per file, in file order, each with the bytes and descriptor
\* of its source file, and exactly one completion event, after all artifacts.
C1_EndToEnd ==
    \A r \in 1..MaxRuns :
        LET run == runs[r]
            ev  == RxEvents(run)
            art == Artifacts(ev)
        IN  (run.pc = "done" /\ AllDelivered(run)) =>
               /\ Len(art) = Len(run.files)
               /\ \A k \in 1..Len(art) :
                     /\ art[k].fileIndex = k - 1
                     /\ art[k].bytes = FileBytes(run.files[k])
                     /\ art[k].descriptor = FileMetadata(run.files)[k]
               /\ CountKind(ev, "complete") = 1
               /\ Len(ev) > 0 /\ ev[Len(ev)].kind = "complete"

\* The same for file sets without a 0-byte file (not a claim: what the code
\* does achieve).
EndToEndNonEmptyFiles ==
    \A r \in 1..MaxRuns :
        LET run == runs[r]
            ev  == RxEvents(run)
            art == Artifacts(ev)
        IN  (/\ run.pc = "done" /\ AllDelivered(run)
             /\ \A k \in 1..Len(run.files) : run.files[k].size > 0) =>
               /\ Len(art) = Len(run.files)
               /\ \A k \in 1..Len(art) :
                     /\ art[k].fileIndex = k - 1
                     /\ art[k].bytes = FileBytes(run.files[k])
                     /\ art[k].descriptor = FileMetadata(run.files)[k]
               /\ CountKind(ev, "complete") = 1
               /\ Len(ev) > 0 /\ ev[Len(ev)].kind = "complete"

\* ---- helpers of the claims
\* ceil(s / c) as the claims define it: the least n with n * c >= s.
CeilOf(s, c) ==
    CHOOSE n \in 0..(s \div c + 1) : n * c >= s /\ (n = 0 \/ (n - 1) * c < s)

IsChunk(e) == e.type = "chunk"

\* The chunk envelopes a run handed to connection.send, in order.
ChunkEnvelopes(run) == SelectSeq(Envelopes(run), IsChunk)

\* <<fileIndex, chunkIndex>> of every chunk of the file list fs from chunk j
\* of file i on: file by file, and within a file by ascending chunkIndex.
RECURSIVE ExpectedChunkIds(_, _, _)
ExpectedChunkIds(fs, i, j) ==
    IF i >= Len(fs) THEN <<>>
    ELSE IF j >= CeilOf(fs[i + 1].size, chunkSize)
         THEN ExpectedChunkIds(fs, i + 1, 0)
         ELSE <<<<i, j>>>> \o ExpectedChunkIds(fs, i, j + 1)

ChunkIds(run) ==
    [k \in 1..Len(ChunkEnvelopes(run)) |->
        <<ChunkEnvelopes(run)[k].fileIndex, ChunkEnvelopes(run)[k].chunkIndex>>]

IsPrefix(a, b) == Len(a) <= Len(b) /\ \A k \in 1..Len(a) : a[k] = b[k]

CountType(envs, type) ==
    Cardinality({k \in 1..Len(envs) : envs[k].type = type})

\* The run has returned or was ended by an exception.
Ended(run) == run.pc \in {"done", "aborted"}

\* One Metadata first, one Complete last, chunks only in between.
FramedStream(envs) ==
    /\ Len(envs) >= 2
    /\ envs[1].type = "metadata"
    /\ envs[Len(envs)].type = "complete"
    /\ \A k \in 2..(Len(envs) - 1) : envs[k].type = "chunk"

\* C2 (as claimed): every run of sendFiles that passed its guard (here: on a
\* channel that was open and took the Metadata envelope) sends exactly one
\* Metadata envelope, before any Chunk, and exactly one Complete envelope,
\* after the last Chunk.
C2_EveryRunFramed ==
    \A r \in 1..MaxRuns :
        (Ended(runs[r]) /\ runs[r].sent[1].outcome = "ok") =>
            FramedStream(Envelopes(runs[r]))

\* C2 (amended): every run that passed its guard sends Metadata first and
\* only once, sends Complete at most once and nothing after it, and a run
\* that has returned has sent exactly one Metadata, then only chunks, then
\* exactly one Complete.
C2_RunFramed ==
    \A r \in 1..MaxRuns :
        LET run  == runs[r]
            envs == Envelopes(run)
        IN  run.pc # "idle" =>
               /\ Len(envs) >= 1 /\ envs[1].type = "metadata"
               /\ CountType(envs, "metadata") = 1
               /\ CountType(envs, "complete") <= 1
               /\ \A k \in 1..Len(envs) :
                     envs[k].type = "complete" => k = Len(envs) /\ Ended(run)
               /\ run.pc = "done" => FramedStream(envs)

\* C2 witness: a run has returned after sending Metadata, chunks and Complete.
C2_Witness ==
    \E r \in 1..MaxRuns :
        /\ runs[r].pc = "done"
        /\ Len(runs[r].sent) >= 4
        /\ FramedStream(Envelopes(runs[r]))

\* C3: the chunk envelopes of a run are sent file by file in ascending
\* fileIndex and, within a file, in ascending chunkIndex from 0, without gap
\* or duplicate (at every moment they are the first chunks of that
\* enumeration), and once the run has returned they are all of them: for each
\* file, one envelope per chunkIndex of [0, totalChunks).
C3_ChunkOrder ==
    \A r \in 1..MaxRuns :
        LET run == runs[r]
            all == ExpectedChunkIds(run.files, 0, 0)
        IN  run.pc # "idle" =>
               /\ IsPrefix(ChunkIds(run), all)
               /\ run.pc = "done" => ChunkIds(run) = all
               /\ \A k \in 1..Len(ChunkEnvelopes(run)) :
                     ChunkEnvelopes(run)[k].chunkIndex
                        < ChunkEnvelopes(run)[k].totalChunks

\* C3 witness: a run over two files with chunks has returned (five chunks or
\* more, the second file's after the first file's).
C3_Witness ==
    \E r \in 1..MaxRuns :
        /\ runs[r].pc = "done"
        /\ Len(runs[r].files) = 2
        /\ \A k \in 1..2 : runs[r].files[k].size > chunkSize
        /\ Len(ChunkEnvelopes(runs[r])) >= 5

\* The chunk envelopes of file index i of a run.
ChunksOfFile(run, i) ==
    LET OfFile(e) == e.type = "chunk" /\ e.fileIndex = i
    IN  SelectSeq(Envelopes(run), OfFile)

RECURSIVE SumPayload(_)
SumPayload(envs) ==
    IF envs = <<>> THEN 0
    ELSE ByteLength(envs[1].data) + SumPayload(Tail(envs))

\* C4: every chunk envelope of a file of size s carries
\* totalChunks = ceil(s / 16384); every chunk but the last has a payload of
\* exactly 16384 bytes, the last holds the remainder, 1 .. 16384 bytes; the
\* payload lengths of a file whose chunks have all been sent sum to s; a
\* 1-byte file has totalChunks 1 and a 50000-byte file has totalChunks 4.
C4_ChunkSizes ==
    \A r \in 1..MaxRuns :
        LET run == runs[r]
        IN  /\ \A k \in 1..Len(ChunkEnvelopes(run)) :
                  LET e == ChunkEnvelopes(run)[k]
                      s == run.files[e.fileIndex + 1].size
                      n == ByteLength(e.data)
                  IN  /\ e.totalChunks = CeilOf(s, 16384)
                      /\ e.chunkIndex < e.totalChunks - 1 => n = 16384
                      /\ e.chunkIndex = e.totalChunks - 1 =>
                            /\ n = s - 16384 * (e.totalChunks - 1)
                            /\ n \in 1..16384
                      /\ s = 1 => e.totalChunks = 1
                      /\ s = 50000 => e.totalChunks = 4
            /\ \A i \in 0..(Len(run.files) - 1) :
                  (run.pc = "done" \/ (run.pc # "idle" /\ run.i > i)) =>
                     /\ Len(ChunksOfFile(run, i)) = CeilOf(run.files[i + 1].size, 16384)
                     /\ SumPayload(ChunksOfFile(run, i)) = run.files[i + 1].size

\* C4 witness: the 1-byte file and the 50000-byte file were sent together.
C4_Witness ==
    \E r \in 1..MaxRuns :
        /\ runs[r].pc = "done"
        /\ Len(runs[r].files) = 2
        /\ runs[r].files[1].size = 1 /\ runs[r].files[2].size = 50000
        /\ Len(ChunksOfFile(runs[r], 0)) = 1
        /\ Len(ChunksOfFile(runs[r], 1)) = 4

\* C5: for a byte sequence B and a chunk size C > 0, chunk j of the split is
\* the bytes [j*C, min((j+1)*C, |B|)) of B, and the chunks concatenated in
\* ascending chunkIndex are exactly B: no gap, no overlap, no padding.
C5_RoundTrip ==
    LET n  == codec.file.size
        cs == codec.chunkSize
    IN  /\ \A j \in DOMAIN codec.slots :
              codec.slots[j] =
                 IF j * cs >= n THEN <<>>
                 ELSE <<[src |-> codec.file.name, from |-> j * cs,
                         to |-> Min((j + 1) * cs, n)]>>
        /\ codec.pc = "done" =>
              /\ codec.out = FileBytes(codec.file)
              /\ ByteLength(codec.out) = n
              /\ DOMAIN codec.slots = 0..(CeilOf(n, cs) - 1)

\* C5 witness: a sequence whose length is no multiple of the chunk size was
\* split into three chunks or more and reassembled.
C5_Witness ==
    /\ codec.pc = "done"
    /\ codec.file.size % codec.chunkSize # 0
    /\ codec.j >= 3
    /\ codec.out = FileBytes(codec.file)

\* The bytes [j * 16384, min((j + 1) * 16384, size)) of the file called name.
ChunkBytesOf(name, size, j) ==
    IF j * 16384 >= size THEN <<>>
    ELSE <<[src |-> name, from |-> j * 16384,
            to |-> Min((j + 1) * 16384, size)]>>

\* A step in which run r passes the guard.
RunStarts(r) == runs[r].pc = "idle" /\ runs'[r].pc # "idle"

\* C6: the Metadata envelope of a run lists one descriptor per file of the
\* selection as it was when sendFiles was called, in that order, and every
\* chunk envelope of the run carries as fileIndex the position in that list
\* of the file its bytes come from, whatever the selection has become since.
C6_IndexMapping ==
    /\ [][\A r \in 1..MaxRuns :
             RunStarts(r) =>
                /\ runs'[r].files = files
                /\ runs'[r].sent[1].env =
                      [type |-> "metadata",
                       files |-> [k \in 1..Len(files) |->
                                     [name |-> files[k].name,
                                      size |-> files[k].size,
                                      type |-> files[k].type,
                                      lastModified |-> files[k].lastModified]]]]_vars
    /\ [](\A r \in 1..MaxRuns :
             runs[r].pc # "idle" =>
                LET meta == runs[r].sent[1].env
                IN  /\ meta.type = "metadata"
                    /\ meta.files = FileMetadata(runs[r].files)
                    /\ \A k \in 1..Len(ChunkEnvelopes(runs[r])) :
                          LET e == ChunkEnvelopes(runs[r])[k]
                          IN  /\ e.fileIndex \in 0..(Len(meta.files) - 1)
                              /\ e.data =
                                    ChunkBytesOf(meta.files[e.fileIndex + 1].name,
                                                 meta.files[e.fileIndex + 1].size,
                                                 e.chunkIndex))

\* C6 witness: a transfer of two files is in its second file while the
\* selection is no longer the one it started with.
C6_Witness ==
    \E r \in 1..MaxRuns :
        /\ runs[r].pc \in {"read", "delay"}
        /\ runs[r].i = 1
        /\ files # runs[r].files
        /\ Len(ChunkEnvelopes(runs[r])) >= 2

\* The channel of the component is open.
ChannelOpen == connection # 0 /\ connState[connection] = "open"

\* C7 (as claimed): sendFiles called with files selected while the channel is
\* absent, accepted but not yet open, or closed fails with "No active
\* connection", sends no envelope (no run starts) and leaves transferStatus
\* and transferProgress unchanged.
C7_OpenRequired ==
    [][(sendFiles /\ ~ChannelOpen /\ Len(files) > 0) =>
          /\ toast' = "No active connection"
          /\ UNCHANGED <<transferStatus, transferProgress, runs>>]_vars

\* C8: sendFiles called with an empty selection on an open channel fails with
\* "No files selected", sends no envelope (no run starts, no run's log
\* changes), and leaves transferStatus and transferProgress unchanged.
C8_NoFilesSelected ==
    [][(sendFiles /\ ChannelOpen /\ Len(files) = 0) =>
          /\ toast' = "No files selected"
          /\ UNCHANGED <<transferStatus, transferProgress, runs>>]_vars

\* C8 witness: after a completed transfer the selection was emptied and
\* sendFiles was called again on the open channel.
C8_Witness ==
    /\ toast = "No files selected"
    /\ ChannelOpen
    /\ Len(files) = 0
    /\ transferStatus = "completed"
    /\ transferProgress # <<>>

\* The last chunk of file index i of the run has been handed to send.
LastChunkSent(run, i) ==
    \E k \in 1..Len(ChunkEnvelopes(run)) :
        /\ ChunkEnvelopes(run)[k].fileIndex = i
        /\ ChunkEnvelopes(run)[k].chunkIndex + 1 = ChunkEnvelopes(run)[k].totalChunks

\* The run passed its guard on a channel that took its Metadata envelope.
StartedOpen(run) == run.pc # "idle" /\ run.sent[1].outcome = "ok"

\* C9 (as claimed): the progress of every file of a transfer never decreases,
\* is 100 only from the moment the file's last chunk is sent, and is 100 once
\* the transfer has returned.
C9_Progress ==
    /\ [][\A i \in DOMAIN transferProgress :
             /\ i \in DOMAIN transferProgress'
             /\ transferProgress'[i] >= transferProgress[i]]_vars
    /\ [](\A r \in 1..MaxRuns : \A i \in 0..(Len(runs[r].files) - 1) :
             StartedOpen(runs[r]) =>
                /\ (/\ runs[r].pc \in {"read", "delay"}
                    /\ i \in DOMAIN transferProgress
                    /\ transferProgress[i] = 100
                    /\ runs[r].i <= i) => LastChunkSent(runs[r], i)
                /\ runs[r].pc = "done" =>
                      i \in DOMAIN transferProgress /\ transferProgress[i] = 100)

\* C10 (as claimed): in a transfer started on an open channel, a write that
\* fails is the run's last (no retry, no further envelope, no Complete), and
\* it ends the run with an error: the run neither goes on nor returns, and the
\* status does not become "completed".
C10_FailureEndsRun ==
    \A r \in 1..MaxRuns : \A k \in 1..Len(runs[r].sent) :
        (StartedOpen(runs[r]) /\ runs[r].sent[k].outcome # "ok") =>
            /\ k = Len(runs[r].sent)
            /\ runs[r].pc = "aborted"
            /\ transferStatus # "completed"

\* -------------------------------------------------- claims about the store
\* C11: a record whose storeFile has resolved with its id, and for whose id
\* deleteFile has not been called since, is what getFileData(id) returns:
\* the bytes, name, size and type that were put, in every state of the
\* process, whatever puts, deletes and startup loading ran in between.
C11_PutThenGet ==
    \A rec \in hist.stored :
        rec.id \notin hist.deleteCalled =>
            /\ GetResult(rec.id).value = "record"
            /\ GetResult(rec.id).payload[1].data = rec.data
            /\ GetResult(rec.id).payload[1].name = rec.name
            /\ GetResult(rec.id).payload[1].size = rec.size
            /\ GetResult(rec.id).payload[1].type = rec.type

\* C11 witness: getFileData has just returned the record of a put with data,
\* after the startup load, while another id was put and deleted.
C11_Witness ==
    /\ ret.op = "getFileData" /\ ret.value = "record"
    /\ ret.payload[1] \in hist.stored
    /\ ByteLength(ret.payload[1].data) > 0
    /\ ~initPending
    /\ hist.deleteDone # {}
    /\ ret.id \notin hist.deleteCalled

\* The ids with a record in the object store, and with an entry in the
\* metadata index.
DbKeys == {r.id : r \in idb}

IndexKeys == {localStorage[k].id : k \in 1..Len(localStorage)}

\* C12 (as claimed): once deleteFile(id) has completed, getFileData(id)
\* finds nothing, in that process and after every later restart, and when
\* the store is quiescent neither durable mirror holds the id, so that a
\* reload has nothing to bring back.
C12_DeleteStays ==
    \A id \in hist.deleteDone :
        /\ ~MapHas(fileStorage, id)
        /\ GetResult(id).value = "null"
        /\ Quiescent => id \notin DbKeys /\ id \notin IndexKeys

\* The same as long as no request to IndexedDB has failed (not a claim: what
\* the code achieves with a healthy durable tier, concurrent puts included).
DeleteStaysWhenHealthy == hist.ioFailures = 0 => C12_DeleteStays

\* C13: a call of getFileData for an id that the object store holds and the
\* map does not returns null, issues no request to IndexedDB and leaves the
\* map, the object store and the metadata index as they were.
C13_GetIsMemoryOnly ==
    [][\A id \in 1..MaxIds :
          (/\ getFileData
           /\ ret'.op = "getFileData" /\ ret'.id = id
           /\ id \in DbKeys
           /\ ~MapHas(fileStorage, id)) =>
              /\ ret'.value = "null"
              /\ UNCHANGED <<fileStorage, idb, localStorage, dbQueue,
                             initPending, ops>>]_vars

\* C13 witness: getFileData has returned null for an id whose record is in
\* the object store and not in the map.
C13_Witness ==
    /\ ret.op = "getFileData" /\ ret.value = "null"
    /\ ret.id \in DbKeys
    /\ ~MapHas(fileStorage, ret.id)

\* What deleteFile does to the map and what it hands back at once: a call
\* for an absent id returns false and changes nothing; a call for a present
\* id removes that record and no other.
DeleteStepFrame ==
    \A id \in 1..MaxIds :
        (deleteFile /\ (ret'.id = id \/ id \in hist'.deleteCalled \ hist.deleteCalled)) =>
            IF MapHas(fileStorage, id)
            THEN /\ fileStorage' = MapDelete(fileStorage, id)
                 /\ MapKeys(fileStorage') = MapKeys(fileStorage) \ {id}
                 /\ ret'.op # "deleteFile"
            ELSE /\ ret'.op = "deleteFile" /\ ret'.value = "false"
                 /\ UNCHANGED <<fileStorage, idb, localStorage, dbQueue, ops>>

\* A deleteFile call that has just resolved true has removed its id from
\* the map and from the object store.
DeleteDoneRemoved ==
    (ret.op = "deleteFile" /\ ret.value = "true") =>
        /\ ret.id \notin MapKeys(fileStorage)
        /\ ret.id \notin DbKeys

\* C14 (as claimed): deleteFile(id) resolves true exactly when the id was in
\* the map, and has then removed it from the map and from the object store;
\* for an absent id it resolves false and leaves the map, the object store
\* and the metadata index unchanged; no other record leaves the map.
C14_DeleteFrame ==
    /\ [][DeleteStepFrame]_vars
    /\ [](DeleteDoneRemoved)
    /\ [][\A o \in 1..MaxOps :
             (ops[o].kind = "delete" /\ ops'[o].kind = "idle") =>
                 ret' = [op |-> "deleteFile", id |-> ops[o].id,
                         value |-> "true", ioError |-> ret'.ioError,
                         payload |-> <<>>]]_vars

\* The same as long as no request to IndexedDB has failed (not a claim).
DeleteFrameWhenHealthy ==
    /\ [][DeleteStepFrame]_vars
    /\ [](hist.ioFailures = 0 => DeleteDoneRemoved)

\* C15: getFileBlobUrl(id) returns null exactly when the map has no record
\* for id or has one with an empty byte sequence, and otherwise a handle on
\* the record's bytes; the call changes nothing in the store.
C15_BlobHandle ==
    [][\A id \in 1..MaxIds :
          (getFileBlobUrl /\ ret'.op = "getFileBlobUrl" /\ ret'.id = id) =>
              /\ ret'.value \in {"null", "url"}
              /\ ret'.value = "null" <=>
                    (\/ ~MapHas(fileStorage, id)
                     \/ ByteLength(fileStorage[MapPos(fileStorage, id)].data) = 0)
              /\ ret'.value = "url" =>
                    ret'.payload[1].data =
                       fileStorage[MapPos(fileStorage, id)].data
              /\ UNCHANGED <<fileStorage, idb, localStorage, dbQueue,
                             initPending, ops, nextId>>]_vars

\* C15 witness: getFileBlobUrl has returned null for a record that is in the
\* map with an empty byte sequence, while another record yields a handle.
C15_Witness ==
    /\ ret.op = "getFileBlobUrl" /\ ret.value = "null"
    /\ MapHas(fileStorage, ret.id)
    /\ \E id \in MapKeys(fileStorage) : BlobResult(id).value = "url"

\* The step in which the startup reconciliation finishes.
ReconcileDone == initPending /\ ~initPending'

\* The map after reconciliation holds every record of the object store, and
\* an empty-bytes record for every id that (from the ids of Among) has only
\* an entry without data in the metadata index.
Reconciled(mem, Among) ==
    /\ \A rec \in idb :
          MapHas(mem, rec.id) /\ mem[MapPos(mem, rec.id)] = rec
    /\ \A k \in 1..Len(localStorage) :
          (/\ ~localStorage[k].hasData
           /\ localStorage[k].id \notin DbKeys
           /\ localStorage[k].id \in Among) =>
              /\ MapHas(mem, localStorage[k].id)
              /\ mem[MapPos(mem, localStorage[k].id)].data = <<>>

\* C16 (as claimed): when the startup reconciliation has finished, every id
\* with a full record in the object store has that record in the map (also
\* where the index lists the id without data), and every id that has only a
\* placeholder entry in the index is in the map with an empty byte sequence.
C16_Reconciled ==
    [][ReconcileDone => Reconciled(fileStorage', 1..MaxIds)]_vars

\* The same when listFilesFromDB was served and for the ids that no
\* deleteFile was called for during the startup (not a claim).
ReconciledWhenUndisturbed ==
    [][(ReconcileDone /\ hist'.ioFailures = hist.ioFailures) =>
          Reconciled(fileStorage', (1..MaxIds) \ hist.deleteCalled)]_vars

\* A storeFile call has completed and a request of its saveToStorage to the
\* object store had failed.
PutSawFailure == ret.op = "storeFile" /\ ret.ioError

\* C17 (as claimed): a storeFile during which the durable tier was
\* unreachable leaves its record readable from the map, and its caller is
\* told of the failure: the call does not resolve as a healthy one does.
C17_IOErrorReported ==
    PutSawFailure =>
        /\ ret.id \notin hist.deleteCalled =>
              GetResult(ret.id).value # "null"
        /\ ret.value # "resolved"

\* The in-memory half of C17 alone (not a claim).
InsertedDespiteFailure ==
    (PutSawFailure /\ ret.id \notin hist.deleteCalled) =>
        /\ GetResult(ret.id).value # "null"
        /\ \E f \in hist.stored :
              f.id = ret.id /\ GetResult(ret.id).payload = <<f>>

\* A storeFile call whose record is in the map and that has not resolved: it
\* is awaiting a saveFileToDB of its saveToStorage loop (line 271).
PutAwaitsDurable(o) == ops[o].kind = "put" /\ ops[o].pc = "saving"

\* C18 (as claimed): storeFile hands its id to the caller right after the
\* in-memory insert; no call is left waiting for a write to the object store.
C18_ReturnsAfterInsert == \A o \in 1..MaxOps : ~PutAwaitsDurable(o)

\* An entry of a list names a record that getFileData returns at that moment,
\* whole: the same name, size and type, and all of its size bytes.
ListedComplete(e) ==
    /\ DOMAIN e = {"id", "name", "size", "type"}
    /\ GetResult(e.id).value = "record"
    /\ LET file == GetResult(e.id).payload[1]
       IN  /\ file.name = e.name /\ file.size = e.size /\ file.type = e.type
           /\ ByteLength(file.data) = file.size

\* C19: every listFiles call, whatever storeFile, deleteFile and startup
\* steps it falls between, returns one {id, name, size, type} entry for each
\* record of the map and nothing else, and each entry names a record that
\* getFileData returns whole.
C19_ListSnapshot ==
    [][ret'.op = "listFiles" =>
          /\ Len(ret'.payload) = Len(fileStorage)
          /\ {ret'.payload[k].id : k \in 1..Len(ret'.payload)}
                = MapKeys(fileStorage)
          /\ \A k \in 1..Len(ret'.payload) : ListedComplete(ret'.payload[k])
      ]_vars

\* A non-empty list was returned during the startup read, with one storeFile
\* awaiting its write and another still reading its file.
C19_Witness ==
    /\ ret.op = "listFiles" /\ ret.payload # <<>>
    /\ initPending
    /\ \E o \in 1..MaxOps : ops[o].pc = "saving"
    /\ \E o \in 1..MaxOps : ops[o].pc = "reading"

\* ------------------------------------------------ claims about the receiver
\* The fileIndex values declared by the Metadata envelopes among envs.
Declared(envs) ==
    UNION {0..(Len(envs[k].files) - 1) :
              k \in {m \in 1..Len(envs) : envs[m].type = "metadata"}}

\* The events of a session that hand out bytes of a file, whole or not.
EmittedFor(rx) ==
    {rx.events[k].fileIndex :
        k \in {m \in 1..Len(rx.events) :
                  rx.events[m].kind \in {"artifact", "IncompleteTransfer"}}}

\* C20: a Chunk whose fileIndex no Metadata of the session declared is
\* counted as a ProtocolViolation and dropped, buffers and events are left as
\* they were and the session goes on, and nothing is ever emitted for an
\* index that was not declared.
C20_UndeclaredIndex ==
    [][Len(receiver'.arrived) = Len(receiver.arrived) + 1 =>
          LET env == receiver'.arrived[Len(receiver'.arrived)]
          IN  /\ (/\ env.type = "chunk"
                  /\ env.fileIndex \notin Declared(receiver.arrived)) =>
                     receiver'.session =
                        [receiver.session EXCEPT !.violations = @ + 1]
              /\ EmittedFor(receiver'.session)
                    \subseteq Declared(receiver'.arrived)
      ]_vars

\* After its Metadata a session was given a Chunk for an undeclared index,
\* dropped it, and then completed a declared file.
C20_Witness ==
    /\ Len(receiver.arrived) = 3
    /\ receiver.arrived[1].type = "metadata"
    /\ receiver.arrived[2].type = "chunk"
    /\ receiver.arrived[2].fileIndex \notin Declared(receiver.arrived)
    /\ receiver.session.violations = 1
    /\ receiver.arrived[3].type = "chunk"
    /\ Len(receiver.session.events) = 1
    /\ receiver.session.events[1].kind = "artifact"
    /\ receiver.session.events[1].fileIndex = receiver.arrived[3].fileIndex

\* ----------------------------------------- further claims about the sender
\* The number of chunk envelopes of file index i the run has handed to send.
ChunksSent(run, i) ==
    Cardinality({k \in 1..Len(run.sent) :
                    /\ run.sent[k].env.type = "chunk"
                    /\ run.sent[k].env.fileIndex = i})

\* C22 (as claimed): the progress shown for a file never runs ahead of the
\* chunks sent: it is at most round(100 * k / totalChunks) for the k chunk
\* envelopes of that file written to the channel so far.
C22_ProgressAfterSend ==
    \A r \in 1..MaxRuns :
        StartedOpen(runs[r]) =>
            \A i \in DOMAIN transferProgress :
                (i < Len(runs[r].files) /\ runs[r].files[i + 1].size > 0) =>
                    transferProgress[i] <=
                        RoundPercent(ChunksSent(runs[r], i),
                                     NumChunks(runs[r].files[i + 1].size,
                                               chunkSize))

\* Progress is never behind either: once chunk j of a file has been sent the
\* file's progress is at least round(100 * (j + 1) / totalChunks) (not a
\* claim).
ProgressNotBehindSend ==
    \A r \in 1..MaxRuns :
        StartedOpen(runs[r]) =>
            \A i \in 0..(Len(runs[r].files) - 1) :
                ChunksSent(runs[r], i) > 0 =>
                    /\ i \in DOMAIN transferProgress
                    /\ transferProgress[i] >=
                          RoundPercent(ChunksSent(runs[r], i),
                                       NumChunks(runs[r].files[i + 1].size,
                                                 chunkSize))

\* The send loop of run r is under way on a channel that took its Metadata.
Transferring(r) == runs[r].pc \in {"read", "delay"} /\ StartedOpen(runs[r])

\* A step of another session than the one on channel c: an event of another
\* channel (accepted, open, closed) or a step of a run on another channel.
OtherSessionStep(c) ==
    \/ \E d \in DOMAIN connState : d # c /\ connState'[d] # connState[d]
    \/ \E q \in DOMAIN runs : runs'[q] # runs[q] /\ runs'[q].conn # c

\* C21 (as claimed): while a transfer is under way on one channel, no step of
\* another session (a connection accepted or opened on another channel, a
\* step of a transfer on another channel) writes the transfer status or the
\* progress mapping.
C21_SessionsIsolated ==
    [][\A r \in DOMAIN runs :
          (Transferring(r) /\ runs'[r] = runs[r]
                           /\ OtherSessionStep(runs[r].conn)) =>
              UNCHANGED <<transferStatus, transferProgress>>]_vars

\* The run has handed its Complete envelope to send.
CompleteSent(run) ==
    \E k \in 1..Len(run.sent) : run.sent[k].env.type = "complete"

\* While a send loop is under way the status is "transferring".
StatusHeld ==
    \A r \in DOMAIN runs : Transferring(r) => transferStatus = "transferring"

\* The status is "completed" only when a run has sent its Complete.
CompletedMeansSent ==
    transferStatus = "completed" =>
        \E r \in DOMAIN runs : CompleteSent(runs[r])

\* C23 (as claimed): from the start of a transfer until its Complete is sent
\* the status stays "transferring" (it does not fall back to idle or
\* connecting), no second transfer starts while a send loop is under way,
\* and the status is "completed" only if Complete has been sent.
C23_StatusAdvances ==
    /\ []StatusHeld
    /\ [][\A q \in DOMAIN runs :
             RunStarts(q) =>
                \A r \in DOMAIN runs \ {q} : ~Transferring(r)]_vars
    /\ []CompletedMeansSent

\* With a single peer the status is held and "completed" means sent (not a
\* claim; checked in Spec, where one connection is ever accepted).
StatusHeldWithOnePeer == StatusHeld /\ CompletedMeansSent

\* The envelopes handed to send on channel c by all runs, as a count.
SentOn(c) ==
    LET Count(r) == IF runs[r].conn = c THEN Len(runs[r].sent) ELSE 0
        RECURSIVE Sum(_)
        Sum(n) == IF n = 0 THEN 0 ELSE Count(n) + Sum(n - 1)
    IN  Sum(Len(runs))

\* A transfer on channel c has sent its Complete, every write of it having
\* gone through.
CompletedOn(c) ==
    \E r \in DOMAIN runs :
        runs[r].conn = c /\ CompleteSent(runs[r]) /\ AllDelivered(runs[r])

\* C24 (as claimed): once Complete has been sent on a channel nothing more
\* is sent on that channel and no file's progress changes again.
C24_CompletedIsTerminal ==
    [][\A c \in DOMAIN connState :
          CompletedOn(c) =>
              /\ SentOn(c)' = SentOn(c)
              /\ UNCHANGED transferProgress]_vars

\* Within one run nothing follows Complete: it is the last envelope the run
\* hands to send (not a claim).
CompleteIsLastOfRun ==
    \A r \in DOMAIN runs : \A k \in 1..Len(runs[r].sent) :
        runs[r].sent[k].env.type = "complete" => k = Len(runs[r].sent)

\* The send loop of the run is suspended at one of its awaits.
Suspended(run) == run.pc \in {"read", "delay"}

\* The run returned after Complete with the status "completed".
Finished(run) ==
    run.pc = "done" /\ CompleteSent(run) /\ transferStatus = "completed"

\* A started transfer whose writes all go through sends Complete and reaches
\* "completed".
Terminates ==
    \A r \in 1..MaxRuns :
        Suspended(runs[r]) ~> (Finished(runs[r]) \/ ~AllDelivered(runs[r]))

\* C25 (as claimed): a started transfer on a channel whose writes never fail
\* eventually sends Complete and reaches "completed", and between two chunk
\* sends the loop is suspended at the inter-chunk pause and nowhere else.
C25_OnlyThePause ==
    /\ Terminates
    /\ [](\A r \in 1..MaxRuns :
             (/\ Suspended(runs[r]) /\ AllDelivered(runs[r])
              /\ ChunkEnvelopes(runs[r]) # <<>>) =>
                 runs[r].pc = "delay")

\* C25 (amended): a started transfer on a channel whose writes never fail
\* eventually sends Complete and reaches "completed"; the loop is suspended
\* at the inter-chunk pause and at the read of the next chunk's bytes only,
\* and it always resumes from both.
C25_Terminates ==
    /\ Terminates
    /\ \A r \in 1..MaxRuns :
          /\ (runs[r].pc = "delay") ~> (runs[r].pc # "delay")
          /\ (runs[r].pc = "read") ~> (runs[r].pc # "read")

\* A transfer of two files, four chunks the longer, has finished with every
\* write delivered.
C25_Witness ==
    \E r \in 1..MaxRuns :
        /\ Finished(runs[r]) /\ AllDelivered(runs[r])
        /\ Len(runs[r].files) = 2
        /\ Len(ChunkEnvelopes(runs[r])) >= 5

\* The component as the Index page mounts it: without the
\* onConnectionEstablished prop (Index.tsx:32-36 passes onFilesStored only).
MountedByIndex == ~propGiven

\* C30 (as claimed): in the component as mounted by the Index page, once
\* the peer initialisation has succeeded the 'connection' handler is
\* installed, and with no connection accepted yet an inbound connection can
\* be taken.
C30_HandlerInstalled ==
    (MountedByIndex /\ peerState = "ready") =>
        /\ handlerInstalled
        /\ (\A c \in DOMAIN connState : connState[c] = "none") =>
              ENABLED PeerConnection

\* The same for a parent that passes the prop (not a claim).
HandlerInstalledWithProp ==
    (propGiven /\ peerState = "ready") =>
        /\ handlerInstalled
        /\ (\A c \in DOMAIN connState : connState[c] = "none") =>
              ENABLED PeerConnection

\* Mounted by the Index page no connection is ever set, and every sendFiles
\* ends at the guard (not a claim).
NoConnectionFromIndex ==
    MountedByIndex =>
        /\ connection = 0
        /\ \A r \in 1..MaxRuns : runs[r].pc = "idle"

\* ------------------------------------------- further claims about the store
\* A synchronous call of the store's reading or deleting operations.
ServedCall == getFileData \/ listFiles \/ getFileBlobUrl \/ deleteFile

\* Every record of the object store that no deleteFile was called for since
\* the load is in the map.
DurableLoaded == (DbKeys \ hist.deleteCalled) \subseteq MapKeys(fileStorage)

\* C26 (as claimed): getFileData, listFiles, getFileBlobUrl and deleteFile
\* are served only on a map that holds every record of the object store;
\* deleteFile never resolves false for an id whose record is in the object
\* store.
C26_ServeAfterInit ==
    [][ServedCall =>
          /\ DurableLoaded
          /\ (ret'.op = "deleteFile" /\ ret'.value = "false") =>
                ret'.id \notin DbKeys \ hist.deleteCalled]_vars

\* Once the startup read has been served, the map holds every record of the
\* object store (not a claim).
LoadedAfterInit ==
    (~initPending /\ hist.ioFailures = 0) => DurableLoaded

\* C27: a record with bytes whose storeFile has resolved, with every request
\* to the object store served so far and no deleteFile called for its id, is
\* returned by getFileData whole (same name, size, type and bytes) once a
\* reload, at whatever moment it came, has read the object store.
C27_CrashDurable ==
    (hist.ioFailures = 0 /\ ~initPending) =>
        \A f \in hist.durable : GetResult(f.id).payload = <<f>>

\* A storeFile of a file with bytes resolved, a second storeFile was called,
\* the page was loaded again and the load has been served: the record is in
\* the object store and getFileData returns it.
C27_Witness ==
    /\ hist.ioFailures = 0 /\ ~initPending
    /\ hist.durable # {} /\ hist.stored = {}
    /\ \E f \in hist.durable : f \in idb /\ GetResult(f.id).payload = <<f>>
    /\ nextId > 2

\* The ids the map holds with a non-empty buffer.
MemWithBytes ==
    {fileStorage[k].id : k \in {q \in 1..Len(fileStorage) :
                                    ByteLength(fileStorage[q].data) > 0}}

\* The metadata index lists exactly the ids of the map, with hasData true
\* exactly for the records with a non-empty buffer.
IndexMatchesMap ==
    /\ IndexKeys = MapKeys(fileStorage)
    /\ \A k \in 1..Len(localStorage) :
          localStorage[k].hasData = (localStorage[k].id \in MemWithBytes)

\* C28: whenever the startup load has finished, no storeFile or deleteFile is
\* in flight and no request to the object store has failed, the ids of the
\* object store are the ids the map holds with bytes, and the metadata index
\* lists exactly the ids of the map with hasData true exactly for those.
C28_TiersConsistent ==
    (Quiescent /\ hist.ioFailures = 0) =>
        /\ DbKeys = MemWithBytes
        /\ IndexMatchesMap

\* The part about the object store holds at every quiescent moment, reloads
\* at any moment included (not a claim).
DbMatchesMap ==
    (Quiescent /\ hist.ioFailures = 0) => DbKeys = MemWithBytes

\* One life of the page on storage that starts empty: the store's operations
\* without a reload.
NextStoreOneLife ==
    \/ storeFile
    \/ ReaderLoad
    \/ ReaderError
    \/ deleteFile
    \/ listFilesFromDB
    \/ saveFileToDB
    \/ deleteFileFromDB
    \/ getFileData
    \/ listFiles
    \/ getFileBlobUrl

SpecStoreOneLife == InitStore /\ [][NextStoreOneLife]_vars

\* Under SpecStoreOneLife both tiers match the map at every quiescent moment
\* (not a claim): the index falls behind only through a reload.
TiersConsistentInOneLife ==
    (Quiescent /\ hist.ioFailures = 0) => (DbKeys = MemWithBytes /\ IndexMatchesMap)

\* ------------------------------------------- claims about the receiver view
\* C29 (as claimed): a removeAvailableFile(id) reports 'File Deleted', or
\* takes id out of the available or the selected list, only when deleteFile(id)
\* has reported that the id was present; and when deleteFile(id) has reported
\* false it reports 'Delete Failed' and leaves both lists as they were.
C29_DeleteReported ==
    [][\A id \in 1..MaxIds :
          removeAvailableFileOf(id) =>
              LET reported(v) == /\ ret'.op = "deleteFile"
                                 /\ ret'.id = id
                                 /\ ret'.value = v
                  listsKept   == /\ view'.availableFiles = view.availableFiles
                                 /\ view'.selectedFiles = view.selectedFiles
              IN  /\ (view'.toast = "File Deleted" \/ ~listsKept) =>
                        reported("true")
                  /\ reported("false") =>
                        (view'.toast = "Delete Failed" /\ listsKept)]_vars

\* Every file the view lists is in the map (not a claim): a deleteFile called
\* from the view always finds its record.
AvailableInMap == AvailableIds \subseteq MapKeys(fileStorage)

\* 'File Deleted' is on show while the record and its index entry are still
\* in the durable tier, with every request served so far.
DeletedShownBeforeDurable ==
    /\ view.toast = "File Deleted"
    /\ hist.ioFailures = 0
    /\ \E id \in hist.deleteCalled :
          id \notin AvailableIds /\ id \in DbKeys /\ id \in IndexKeys

=============================================================================
